---- MODULE Spec2Model ----
(***************************************************************************)
(* A model of sos/tasks.py: the binary task record (TaskFile), the         *)
(* liveness probe (check_task) and the multi-task sweep (check_tasks).     *)
(*                                                                         *)
(* Three specifications share the variables:                               *)
(*   SpecRecord  one task record at the level of its header fields and    *)
(*               the bytes of its sections;                                *)
(*   Spec        one task's files on disk, an executor and other           *)
(*               processes changing them, and check_task run step by step; *)
(*   SpecSweep   check_tasks over several tasks with the persisted cache.  *)
(***************************************************************************)
EXTENDS Integers, Sequences, FiniteSets, TLC

VARIABLES
    now,        \* time.time(), in whole seconds
    byteorder,  \* the byte order of the host: "big" or "little"
    exists,     \* SpecRecord: os.path.isfile(task_file)
    header,     \* SpecRecord: the TaskHeader stored in the first header_size bytes
    body,       \* SpecRecord: the bytes of the file after the header
    written,    \* SpecRecord: per section, the content last written and not discarded since
    lastOp,     \* SpecRecord: the TaskFile method that ran last
    nops,       \* SpecRecord: the number of steps taken so far
    fs,         \* per task: the record file and its companion files in ~/.sos/tasks
    probe,      \* per task: the check_task call in progress, if any
    cache,      \* per task: the last non-empty result of check_task (the hint of the next call)
    events,     \* the number of steps other processes and the clock have taken
    sweep,      \* the check_tasks call in progress, if any
    master,     \* SpecMaster: a MasterTaskParams object and the outcome of its last push
    kill,       \* the kill_task call in progress, if any
    purge,      \* the purge_tasks call in progress, if any
    caller,     \* SpecRecord: the TaskParams object of the last save(), as the caller holds it
    lock        \* SpecCache: the holder of the lock file status_cache.pickle_, if any

recVars == <<exists, header, body, written, lastOp, nops>>
probeVars == <<fs, probe, cache, events>>
opVars == <<kill, purge, caller, lock>>
vars == <<now, byteorder, recVars, probeVars, sweep, master, opVars>>

-----------------------------------------------------------------------------
(* Bounds of the model *)

\* longest section content (params, pulse, stdout, stderr, result, signature)
MaxLen == 1
\* longest sequence of steps (TaskFile calls and clock ticks) of SpecRecord
MaxOps == 3
\* most steps of the other processes (executor, submitter, clock) in Spec
MaxEvents == 4
\* most steps of the other processes in SpecKill
MaxKillEvents == 3
\* most steps of the other processes in SpecPurge
MaxPurgeEvents == 3
\* most steps of the other processes (executor, interpreter, clock) in SpecSweep
MaxSweepEvents == 3
\* last clock value
MaxTime == 60
\* most push calls on one master
MaxPush == 5
\* largest num_workers of a master
MaxWorkers == 3

-----------------------------------------------------------------------------
(* TaskStatus *)

TaskStatus ==
    [new |-> 0, pending |-> 1, submitted |-> 2, running |-> 3,
     aborted |-> 4, failed |-> 5, completed |-> 6]

StatusNames == DOMAIN TaskStatus

\* TaskStatus(value).name; "ValueError" when value is not a member's value
TaskStatusName(value) ==
    IF \E s \in StatusNames : TaskStatus[s] = value
    THEN CHOOSE s \in StatusNames : TaskStatus[s] = value
    ELSE "ValueError"

\* struct.pack('!i', v) for a small non-negative v: four bytes, network order
PackBE(v) == <<0, 0, 0, v>>

\* struct.unpack('i', b)[0]: the host's byte order
UnpackNativeLittle(b) == b[1] + 256 * b[2] + 65536 * b[3] + 16777216 * b[4]

UnpackNative(b, order) ==
    IF order = "big"
    THEN 16777216 * b[1] + 65536 * b[2] + 256 * b[3] + b[4]
    ELSE UnpackNativeLittle(b)

-----------------------------------------------------------------------------
(* The compressed blocks of a record.  A content is a short sequence of    *)
(* symbols; lzma.compress frames it: a magic byte, the encoded symbols, a  *)
(* check byte that depends on the content.  lzma.decompress accepts       *)
(* exactly the framed sequences.                                           *)

Sym == {1}

RECURSIVE SeqsUpTo(_)
SeqsUpTo(n) ==
    IF n = 0 THEN {<<>>}
    ELSE LET S == SeqsUpTo(n - 1)
         IN  S \cup {Append(s, x) : s \in {t \in S : Len(t) = n - 1}, x \in Sym}

Contents == SeqsUpTo(MaxLen)

Magic == 253
CheckBase == 100
EncShift == 10

RECURSIVE SumSeq(_)
SumSeq(s) == IF s = <<>> THEN 0 ELSE Head(s) + SumSeq(Tail(s))

Compress(c) ==
    <<Magic>> \o [i \in 1..Len(c) |-> c[i] + EncShift] \o <<CheckBase + SumSeq(c)>>

LZMAError == <<-2>>

\* the content of a block, or LZMAError
Decompress(b) ==
    IF /\ Len(b) >= 2
       /\ b[1] = Magic
       /\ \A i \in 2..(Len(b) - 1) : (b[i] - EncShift) \in Sym
       /\ b[Len(b)] = CheckBase + SumSeq([i \in 1..(Len(b) - 2) |-> b[i + 1] - EncShift])
    THEN [i \in 1..(Len(b) - 2) |-> b[i + 1] - EncShift]
    ELSE LZMAError

\* what a companion file (.pulse, .out, .err) holds: a content, or no file
NoFile == <<-1>>
CompanionStates == Contents \cup {NoFile}

-----------------------------------------------------------------------------
(* File primitives on the bytes after the header *)

\* fh.seek(header_size + off); fh.write(block): a gap past the end reads as zeros
WriteAt(b, off, block) ==
    LET end == off + Len(block)
        n   == IF end > Len(b) THEN end ELSE Len(b)
    IN  [i \in 1..n |->
            IF i > off /\ i <= end THEN block[i - off]
            ELSE IF i <= Len(b) THEN b[i]
            ELSE 0]

\* fh.truncate(header_size + n): cuts or zero-extends
Truncate(b, n) == [i \in 1..n |-> IF i <= Len(b) THEN b[i] ELSE 0]

\* fh.seek(header_size + off); fh.read(size): short at the end of the file
ReadAt(b, off, size) ==
    LET last == IF off + size > Len(b) THEN Len(b) ELSE off + size
    IN  [i \in 1..(IF last > off THEN last - off ELSE 0) |-> b[off + i]]

-----------------------------------------------------------------------------
(* TaskFile: header *)

Sections == {"params", "pulse", "stdout", "stderr", "result", "signature"}

\* struct.calcsize('!2i 128s 8d 6i')
header_size == 224

\* the tag lists handed to save()
TagInputs == {<<2, 1>>}

\* a TaskParams object: its fields other than tags (one content), and its tags
TaskParams(content, tags) == [content |-> content, tags |-> tags]

\* del params.tags: the object without its tags attribute
DelTags(p) == [content |-> p.content]

\* pickle.dumps / pickle.loads of an object with no tags attribute
Pickle(p) == p.content
Unpickle(c) == [content |-> c]

\* the object handed to save(): as it was built, and as save() leaves it
NoCaller == [created |-> FALSE, arg |-> Unpickle(<<>>), left |-> Unpickle(<<>>)]

NoHeader == [version |-> 0]

\* no content written to a section
None == <<-1>>

NoneWritten == [s \in Sections |-> None]

\* the header written by save()
SaveHeader(t, tags, psize) ==
    [version |-> 1, status |-> TaskStatus.new, tags |-> SortSeq(tags, <),
     new_time |-> t, pending_time |-> 0, submitted_time |-> 0, running_time |-> 0,
     aborted_time |-> 0, failed_time |-> 0, completed_time |-> 0, last_modified |-> t,
     params_size |-> psize, pulse_size |-> 0, stdout_size |-> 0, stderr_size |-> 0,
     result_size |-> 0, signature_size |-> 0]

\* header._replace(...) in update()
UpdateHeader(h, t, psize) ==
    [h EXCEPT !.status = TaskStatus.pending,
              !.new_time = t, !.pending_time = 0, !.submitted_time = 0,
              !.running_time = 0, !.aborted_time = 0, !.failed_time = 0,
              !.completed_time = 0, !.last_modified = t,
              !.params_size = psize, !.pulse_size = 0, !.stdout_size = 0,
              !.stderr_size = 0, !.result_size = 0, !.signature_size = 0]

\* header._replace(...) in _reset()
ResetHeader(h, t) ==
    [h EXCEPT !.status = TaskStatus.new,
              !.new_time = t, !.pending_time = 0, !.submitted_time = 0,
              !.running_time = 0, !.aborted_time = 0, !.failed_time = 0,
              !.completed_time = 0, !.last_modified = t,
              !.pulse_size = 0, !.stdout_size = 0,
              !.stderr_size = 0, !.result_size = 0, !.signature_size = 0]

\* the sum of the six section sizes
SizeSum(h) ==
    h.params_size + h.pulse_size + h.stdout_size + h.stderr_size
        + h.result_size + h.signature_size

\* the offset of a section in the bytes after the header, as the accessors compute it
Offset(h, sec) ==
    CASE sec = "params"    -> 0
      [] sec = "pulse"     -> h.params_size
      [] sec = "stdout"    -> h.params_size + h.pulse_size
      [] sec = "stderr"    -> h.params_size + h.pulse_size + h.stdout_size
      [] sec = "result"    -> h.params_size + h.pulse_size + h.stdout_size + h.stderr_size
      [] sec = "signature" -> h.params_size + h.pulse_size + h.stdout_size + h.stderr_size
                                  + h.result_size

SizeOf(h, sec) ==
    CASE sec = "params"    -> h.params_size
      [] sec = "pulse"     -> h.pulse_size
      [] sec = "stdout"    -> h.stdout_size
      [] sec = "stderr"    -> h.stderr_size
      [] sec = "result"    -> h.result_size
      [] sec = "signature" -> h.signature_size

-----------------------------------------------------------------------------
(* TaskFile: accessors.  Each reads the header afresh and decodes the      *)
(* bytes at the offset the header gives.  <<>> stands for '' and {}.       *)

\* the result {'ret_code': 1}
ret_code_1 == <<-3>>

\* _get_params: no try/except around the decoding
GetParams(h, b) ==
    IF h.params_size = 0 THEN <<>>
    ELSE Decompress(ReadAt(b, Offset(h, "params"), h.params_size))

\* _get_pulse, _get_stdout, _get_stderr: a decoding error gives ''
GetText(h, b, sec) ==
    IF SizeOf(h, sec) = 0 THEN <<>>
    ELSE LET d == Decompress(ReadAt(b, Offset(h, sec), SizeOf(h, sec)))
         IN  IF d = LZMAError THEN <<>> ELSE d

\* _get_result, _get_signature: a decoding error gives {'ret_code': 1}
GetPickled(h, b, sec) ==
    IF SizeOf(h, sec) = 0 THEN <<>>
    ELSE LET d == Decompress(ReadAt(b, Offset(h, sec), SizeOf(h, sec)))
         IN  IF d = LZMAError THEN ret_code_1 ELSE d

Accessor(h, b, sec) ==
    CASE sec = "params" -> GetParams(h, b)
      [] sec \in {"pulse", "stdout", "stderr"} -> GetText(h, b, sec)
      [] sec \in {"result", "signature"} -> GetPickled(h, b, sec)

\* _get_status: the four bytes at offset 4, unpacked in the host's byte order
GetStatus(h, order) == TaskStatusName(UnpackNative(PackBE(h.status), order))

\* _set_status: the statuses of the if/elif chain; any other raises RuntimeError
StatusRecognized(status) ==
    status \in {"pending", "submitted", "running", "failed", "aborted", "completed"}

\* a _set_status that stamps new_time whatever the status
SetStatusHeaderStampsNew(h, status, t) ==
    [h EXCEPT !.status = TaskStatus[status], !.new_time = t, !.last_modified = t]

\* _set_status: the header to write
SetStatusHeader(h, status, t) ==
    CASE status = "pending" ->
            [h EXCEPT !.status = TaskStatus[status], !.pending_time = t, !.last_modified = t]
      [] status = "submitted" ->
            [h EXCEPT !.status = TaskStatus[status], !.submitted_time = t, !.last_modified = t]
      [] status = "running" ->
            [h EXCEPT !.status = TaskStatus[status], !.running_time = t, !.last_modified = t]
      [] status = "failed" ->
            [h EXCEPT !.status = TaskStatus[status], !.failed_time = t, !.last_modified = t]
      [] status = "aborted" ->
            [h EXCEPT !.status = TaskStatus[status], !.aborted_time = t, !.last_modified = t]
      [] status = "completed" ->
            [h EXCEPT !.status = TaskStatus[status], !.completed_time = t, !.last_modified = t]
      [] OTHER -> h

-----------------------------------------------------------------------------
(* MasterTaskParams.  A value of sos_dict['_runtime'] is held as a         *)
(* sequence, the empty one standing for a key that is missing or None.     *)

Undef == <<>>

\* the keys of the loop at lines 83-84, in its order
RuntimeKeys == <<"walltime", "cores", "mem", "name">>

\* the _runtime values of the sub-tasks pushed: walltime as <<hours, minutes, seconds>>,
\* cores as a count, mem in MB, name as a string
RuntimeInputs ==
    [walltime : {Undef, <<0, 30, 0>>},
     cores    : {Undef, <<1>>, <<2>>},
     mem      : {Undef, <<200>>},
     name     : {Undef, <<"n">>}]

\* params.tags of the k-th sub-task of the step
TagsOf(k) == IF k % 2 = 1 THEN {"x"} ELSE {"x", "y"}

NoRuntime == [walltime |-> Undef, cores |-> Undef, mem |-> Undef, name |-> Undef]

\* expand_time: a walltime in seconds
expand_time(v) == v[1] * 3600 + v[2] * 60 + v[3]

\* format_HHMMSS: seconds as hours, minutes, seconds
format_HHMMSS(v) == <<v \div 3600, (v % 3600) \div 60, v % 60>>

\* expand_size('100M'), in MB
MasterMem == 100

\* MasterTaskParams(num_workers), with what the last push call did
NewMaster(w) ==
    [num_workers |-> w, task_stack |-> <<>>, first |-> NoRuntime, runtime |-> NoRuntime,
     tags |-> {}, ID |-> <<0, 0>>, calls |-> 0, raised |-> FALSE, pushed |-> NoRuntime]

\* lines 92-93, with n = len(self.task_stack)
NRow(n, w) ==
    IF w <= 1 THEN n
    ELSE (n + 1) \div w + (IF (n + 1) % w = 0 THEN 0 ELSE 1)

\* lines 94-99
NCol(n, w, nrow) ==
    IF w = 0 THEN 1
    ELSE IF nrow > 1 THEN w
    ELSE n + 1

\* lines 101-117: the value the master holds for key after the push
MergedValue(key, val0, old, n, w) ==
    LET nrow == NRow(n, w)
        ncol == NCol(n, w, nrow)
    IN  IF val0 = Undef THEN old
        ELSE CASE key = "walltime" -> format_HHMMSS(nrow * expand_time(val0))
               [] key = "mem"      -> <<ncol * val0[1] + (IF w > 0 THEN MasterMem ELSE 0)>>
               [] key = "cores"    -> <<ncol * val0[1] + (IF w > 0 THEN 1 ELSE 0)>>
               [] key = "name"     -> <<val0[1], n + 1>>
               [] OTHER            -> old

\* the loop comparing a key only when the first sub-task defines it
RECURSIVE PushLoopDefinedOnly(_, _, _, _, _, _)
PushLoopDefinedOnly(i, first, params, runtime, n, w) ==
    IF i > Len(RuntimeKeys) THEN [runtime |-> runtime, raised |-> FALSE]
    ELSE LET key == RuntimeKeys[i]
         IN  IF first[key] # Undef /\ first[key] # params[key]
             THEN [runtime |-> runtime, raised |-> TRUE]
             ELSE PushLoopDefinedOnly(i + 1, first, params,
                           [runtime EXCEPT ![key] = MergedValue(key, first[key], @, n, w)],
                           n, w)

\* lines 83-117: the loop from its i-th key on; it stops at the first key that differs
RECURSIVE PushLoop(_, _, _, _, _, _)
PushLoop(i, first, params, runtime, n, w) ==
    IF i > Len(RuntimeKeys) THEN [runtime |-> runtime, raised |-> FALSE]
    ELSE LET key == RuntimeKeys[i]
         IN  IF first[key] # params[key]
             THEN [runtime |-> runtime, raised |-> TRUE]
             ELSE PushLoop(i + 1, first, params,
                           [runtime EXCEPT ![key] = MergedValue(key, first[key], @, n, w)],
                           n, w)

\* a push whose new id names the sub-task just pushed
PushOnNamesLast(m, task_id, params, tags) ==
    LET n == Len(m.task_stack)
        loop == PushLoop(1, m.first, params, m.runtime, n, m.num_workers)
        called == [m EXCEPT !.calls = @ + 1, !.pushed = params]
    IN  IF n = 0
        THEN [called EXCEPT !.runtime = params, !.first = params, !.tags = tags,
                            !.task_stack = <<<<task_id, params>>>>, !.ID = <<1, task_id>>,
                            !.raised = FALSE]
        ELSE IF loop.raised
        THEN [called EXCEPT !.runtime = loop.runtime, !.raised = TRUE]
        ELSE [called EXCEPT !.runtime = loop.runtime, !.tags = @ \cup tags,
                            !.task_stack = Append(@, <<task_id, params>>),
                            !.ID = <<n + 1, task_id>>, !.raised = FALSE]

\* lines 67-135: push(task_id, params) on master m; the stack holds [task_id, params]
PushOn(m, task_id, params, tags) ==
    LET n == Len(m.task_stack)
        loop == PushLoop(1, m.first, params, m.runtime, n, m.num_workers)
        called == [m EXCEPT !.calls = @ + 1, !.pushed = params]
    IN  IF n = 0
        THEN [called EXCEPT !.runtime = params, !.first = params, !.tags = tags,
                            !.task_stack = <<<<task_id, params>>>>, !.ID = <<1, task_id>>,
                            !.raised = FALSE]
        ELSE IF loop.raised
        THEN [called EXCEPT !.runtime = loop.runtime, !.raised = TRUE]
        ELSE [called EXCEPT !.runtime = loop.runtime, !.tags = @ \cup tags,
                            !.task_stack = Append(@, <<task_id, params>>),
                            !.ID = <<n + 1, m.task_stack[1][1]>>, !.raised = FALSE]

\* num_tasks()
num_tasks(m) == Len(m.task_stack)

\* master.push(task_id, params)
Push(task_id, params, tags) ==
    /\ master.calls < MaxPush
    /\ master' = PushOn(master, task_id, params, tags)
    /\ UNCHANGED <<now, byteorder, recVars, probeVars, sweep, opVars>>

-----------------------------------------------------------------------------
(* The files of a task in ~/.sos/tasks.  A file is held as its st_mtime,   *)
(* 0 standing for "no such file" (the clock starts at 1).                  *)

Tasks == {"t1", "t2"}

monitor_interval == 5

\* the record and companion files of one task: none of them exists
NoFiles ==
    [task |-> 0, status |-> 0, pulse |-> 0, pulse_w |-> TRUE,
     sh |-> 0, job_id |-> 0, out |-> FALSE, err |-> FALSE]

\* the statuses check_task returns at once
Terminal == {"failed", "completed", "aborted"}

\* a key that an evidence map does not hold
NoKey == -1

\* the files of a result: task_file, pulse_file and job_file, each an mtime, 0 or NoKey
Evidence(task, pulse, sh) == [task |-> task, pulse |-> pulse, sh |-> sh]

EvidenceKeys == {"task", "pulse", "sh"}

\* dict(status=..., files=...)
Result(status, files) == [status |-> status, files |-> files]

\* the empty result {} (and the empty hint)
Empty == Result("empty", Evidence(NoKey, NoKey, NoKey))

\* line 540 without its "if v else" part: a file recorded as missing never matches
EvidenceHoldsNoAbsent(f, files) ==
    \A k \in EvidenceKeys :
        \/ files[k] = NoKey
        \/ (f[k] # 0 /\ f[k] = files[k])

\* line 540: every file of the hint has the recorded mtime, or is still missing
EvidenceHolds(f, files) ==
    \A k \in EvidenceKeys :
        \/ files[k] = NoKey
        \/ IF files[k] # 0 THEN f[k] = files[k] ELSE f[k] = 0

\* tf.status = status: the header is rewritten, so the record's mtime becomes t
TfSetStatus(f, status, t) == [f EXCEPT !.status = TaskStatus[status], !.task = t]

\* remove_task_files(task, ['.sh', '.job_id', '.out', '.err', '.pulse'])
RemoveTaskFiles(f) ==
    [f EXCEPT !.sh = 0, !.job_id = 0, !.out = FALSE, !.err = FALSE,
              !.pulse = 0, !.pulse_w = TRUE]

\* the state of the files when a call was entered; valid until something else acts
NoPre == [f |-> NoFiles, now |-> 0, valid |-> FALSE]

IdleProbe ==
    [pc |-> "idle", hint |-> Empty, mtime |-> 0, status |-> "none",
     status_files |-> Evidence(NoKey, NoKey, NoKey), start_stamp |-> 0,
     result |-> Empty, pre |-> NoPre, retries |-> 0]

\* return r
Returned(p, r) ==
    [IdleProbe EXCEPT !.pc = "returned", !.hint = p.hint, !.pre = p.pre, !.result = r,
                      !.retries = p.retries]

\* an exception leaves check_task
Raised(p, e) ==
    [IdleProbe EXCEPT !.pc = "raised", !.hint = p.hint, !.pre = p.pre, !.retries = p.retries,
                      !.result = Result(e, Evidence(NoKey, NoKey, NoKey))]

\* lines 539-541: the hint is not of a live status and its evidence still holds
HintShortCircuit(f, hint) ==
    /\ hint # Empty
    /\ hint.status \notin {"pending", "running"}
    /\ EvidenceHolds(f, hint.files)

\* lines 539-561: check_task(task, hint) is entered with the files as f at time t
Enter(f, hint, t) ==
    LET p == [IdleProbe EXCEPT !.hint = hint, !.pre = [f |-> f, now |-> t, valid |-> TRUE]]
        status == GetStatus(f, byteorder)
    IN  IF HintShortCircuit(f, hint) THEN Returned(p, Empty)
        ELSE IF f.task = 0 THEN Returned(p, Result("missing", Evidence(0, NoKey, NoKey)))
        ELSE IF status = "ValueError" THEN Raised(p, "ValueError")
        ELSE IF status \in Terminal
             THEN Returned(p, Result(status, Evidence(f.task, NoKey, NoKey)))
        ELSE [p EXCEPT !.pc = "pulse", !.mtime = f.task, !.status = status]

\* return check_task(task): the call starts over without a hint; retries counts the
\* recursive calls of one call
Reprobe(p, f, t) == [Enter(f, Empty, t) EXCEPT !.retries = p.retries + 1]

\* the except clauses: retry when the record changed, else re-raise; task_changed()
\* itself raises when the record is gone
Handler(p, f, t) ==
    IF f.task = 0 THEN Raised(p, "FileNotFoundError")
    ELSE IF f.task # p.mtime THEN Reprobe(p, f, t)
    ELSE Raised(p, "FileNotFoundError")

\* line 570: is there a liveness file not older than the record by more than a second
PulseFresh(f) == f.pulse # 0 /\ f.pulse >= f.task - 1

\* has_job() comparing the job-id marker with the record instead of the script
HasJobBothNewer(f) == f.sh # 0 /\ f.sh >= f.task /\ f.job_id # 0 /\ f.job_id >= f.task

\* lines 641-642
HasJob(f) == f.sh # 0 /\ f.sh >= f.task /\ f.job_id # 0 /\ f.job_id >= f.sh

\* lines 603-607, 623-627: the executor is taken for dead
Abort(f, status, t) ==
    LET f1 == RemoveTaskFiles(f)
    IN  IF status # "aborted" THEN TfSetStatus(f1, "aborted", t) ELSE f1

\* lines 591-593, 618-620
MarkRunning(f, status, t) ==
    IF status # "running" THEN TfSetStatus(f, "running", t) ELSE f

\* lines 594-597: what the fast path returns
RunningResult(p, status_files) ==
    IF p.hint # Empty /\ p.hint.status = "running"
    THEN Returned(p, Empty)
    ELSE Returned(p, Result("running", status_files))

\* lines 660-664: what the probe returns when nothing was found
UnchangedResult(p, f) ==
    IF p.hint # Empty /\ p.hint.status \in {"new", "pending"} /\ p.hint.files.task = f.task
    THEN Returned(p, Empty)
    ELSE Returned(p, Result(p.status, Evidence(f.task, NoKey, 0)))

-----------------------------------------------------------------------------
(* check_tasks(tasks, is_all).  The StatusCache file is `cache`: a task    *)
(* whose entry is Empty has no key in it.                                  *)

\* the slot of raw_status of a probe that has not ended yet
NotRun == Result("notrun", Evidence(NoKey, NoKey, NoKey))

\* what a raised probe leaves in place of a result
Errors == {Result(e, Evidence(NoKey, NoKey, NoKey)) : e \in {"ValueError", "FileNotFoundError"}}

NoCache == [t \in Tasks |-> Empty]

IdleSweep ==
    [pc |-> "idle", tasks |-> {}, is_all |-> FALSE, status_cache |-> NoCache,
     started |-> {}, raw |-> [t \in Tasks |-> NotRun], ret |-> NoCache]

\* the keys of a mapping
Keys(m) == {t \in Tasks : m[t] # Empty}

\* line 692
HasChanges(tasks, raw) == \E t \in tasks : raw[t] # Empty

\* lines 695-696: only the queried tasks are kept
MergeAll(status_cache, tasks, raw) ==
    [t \in Tasks |->
        IF t \in tasks THEN (IF raw[t] # Empty THEN raw[t] ELSE status_cache[t]) ELSE Empty]

\* lines 698-699: the changed entries are updated
MergePartial(status_cache, tasks, raw) ==
    [t \in Tasks |-> IF t \in tasks /\ raw[t] # Empty THEN raw[t] ELSE status_cache[t]]

\* lines 693-699: the mapping check_tasks returns
Merged(status_cache, tasks, is_all, raw) ==
    IF HasChanges(tasks, raw)
    THEN IF is_all THEN MergeAll(status_cache, tasks, raw)
         ELSE MergePartial(status_cache, tasks, raw)
    ELSE status_cache

-----------------------------------------------------------------------------
(* kill_task(task) and purge_tasks(tasks) *)

\* fasteners.InterProcessLock(cache_file + '_'): nobody holds the lock file
Free == "free"

\* no kill_task call; killed holds the tasks for which a call has returned aborted
IdleKill ==
    [pc |-> "idle", task |-> "", status |-> "none", result |-> "none", pre |-> NoPre,
     post |-> NoFiles, killed |-> {}]

\* remove_task_files(task, ['.sh', '.job_id', '.out', '.err'])
RemoveJobFiles(f) == [f EXCEPT !.sh = 0, !.job_id = 0, !.out = FALSE, !.err = FALSE]

\* os.chmod(pulse_file, stat.S_IREAD | stat.S_IRGRP | stat.S_IROTH) when the file is there
MakeReadOnly(f) == IF f.pulse # 0 THEN [f EXCEPT !.pulse_w = FALSE] ELSE f

\* the files of a task that os.remove can fail on, and "none"
FileKinds == {"task", "pulse", "sh", "job_id", "out", "err"}

\* is the file of this kind there
Present(f, k) ==
    CASE k \in {"out", "err"} -> f[k]
      [] OTHER -> f[k] # 0

\* the files of a task once the file of kind k is removed
Removed(f, k) ==
    CASE k = "task"  -> [f EXCEPT !.task = 0, !.status = 0]
      [] k = "pulse" -> [f EXCEPT !.pulse = 0, !.pulse_w = TRUE]
      [] k = "sh"    -> [f EXCEPT !.sh = 0]
      [] k = "job_id" -> [f EXCEPT !.job_id = 0]
      [] k = "out"   -> [f EXCEPT !.out = FALSE]
      [] k = "err"   -> [f EXCEPT !.err = FALSE]

\* lines 1173-1181: os.remove on every file of to_be_removed[task]; the removal of the
\* file of kind fail raises and is logged, the loop goes on
RECURSIVE RemoveAll(_, _, _, _)
RemoveAll(f, found, fail, kinds) ==
    IF kinds = {} THEN f
    ELSE LET k == CHOOSE x \in kinds : TRUE
             f1 == IF Present(found, k) /\ k # fail THEN Removed(f, k) ELSE f
         IN  RemoveAll(f1, found, fail, kinds \ {k})

\* no purge_tasks call; purged holds the ids a call has purged
IdlePurge ==
    [pc |-> "idle", all_tasks |-> {}, to_be_removed |-> [t \in Tasks |-> NoFiles],
     todo |-> {}, status_cache |-> NoCache, failed |-> [t \in Tasks |-> "none"],
     post |-> [t \in Tasks |-> NoFiles], stored |-> NoCache, purged |-> {}]

-----------------------------------------------------------------------------
(* check_task, step by step *)

Active(t) == probe[t].pc \notin {"idle"}

\* something else than the call of task t acted: its entry snapshot no longer applies
Disturb(pr, ts) ==
    [t \in Tasks |-> IF t \in ts /\ pr[t].pc # "idle"
                     THEN [pr[t] EXCEPT !.pre = NoPre] ELSE pr[t]]

ProbeFrame == UNCHANGED <<byteorder, master, opVars, recVars, cache, events, sweep>>

\* check_task(t, hint) is called; lines 539-561 run
CheckTask(t, hint) ==
    /\ probe[t].pc = "idle"
    /\ probe' = [probe EXCEPT ![t] = Enter(fs[t], hint, now)]
    /\ UNCHANGED <<now, fs>>
    /\ ProbeFrame

\* line 570
PulseCheck(t) ==
    /\ probe[t].pc = "pulse"
    /\ LET f == fs[t]
           p == probe[t]
       IN  probe' = [probe EXCEPT ![t] =
               IF f.pulse # 0 /\ f.task = 0 THEN Raised(p, "FileNotFoundError")
               ELSE IF PulseFresh(f) THEN [p EXCEPT !.pc = "pulse_body"]
               ELSE [p EXCEPT !.pc = "job"]]
    /\ UNCHANGED <<now, fs>>
    /\ ProbeFrame

\* lines 571-607
PulseBody(t) ==
    /\ probe[t].pc = "pulse_body"
    /\ LET f == fs[t]
           p == probe[t]
           status_files == Evidence(f.task, f.pulse, NoKey)
           elapsed == now - f.pulse
       IN  IF f.task = 0 \/ f.pulse = 0
           THEN /\ probe' = [probe EXCEPT ![t] = Handler(p, f, now)]
                /\ fs' = fs
           ELSE IF ~f.pulse_w
           THEN LET f1 == RemoveTaskFiles(TfSetStatus(f, "aborted", now))
                IN  /\ fs' = [fs EXCEPT ![t] = f1]
                    /\ probe' = [probe EXCEPT ![t] =
                           Returned(p, Result("aborted", Evidence(f1.task, 0, NoKey)))]
           ELSE IF elapsed < monitor_interval
           THEN /\ fs' = [fs EXCEPT ![t] = MarkRunning(f, p.status, now)]
                /\ probe' = [probe EXCEPT ![t] = RunningResult(p, status_files)]
           ELSE IF elapsed > 2 * monitor_interval
           THEN IF f.task # p.mtime
                THEN /\ probe' = [probe EXCEPT ![t] = Reprobe(p, f, now)]
                     /\ fs' = fs
                ELSE /\ fs' = [fs EXCEPT ![t] = Abort(f, p.status, now)]
                     /\ probe' = [probe EXCEPT ![t] =
                            Returned(p, Result("aborted", status_files))]
           ELSE /\ probe' = [probe EXCEPT ![t] =
                       [p EXCEPT !.pc = "sleep", !.start_stamp = f.pulse,
                                 !.status_files = status_files]]
                /\ fs' = fs
    /\ UNCHANGED now
    /\ ProbeFrame

\* line 609: time.sleep(2 * monitor_interval)
Sleep(t) ==
    /\ probe[t].pc = "sleep"
    /\ now + 2 * monitor_interval <= MaxTime
    /\ now' = now + 2 * monitor_interval
    /\ probe' = [Disturb(probe, Tasks \ {t}) EXCEPT ![t] = [probe[t] EXCEPT !.pc = "after_sleep"]]
    /\ UNCHANGED fs
    /\ ProbeFrame

\* lines 610-627
AfterSleep(t) ==
    /\ probe[t].pc = "after_sleep"
    /\ LET f == fs[t]
           p == probe[t]
       IN  IF f.task = 0 \/ f.pulse = 0
           THEN /\ probe' = [probe EXCEPT ![t] = Handler(p, f, now)]
                /\ fs' = fs
           ELSE IF f.task # p.mtime
           THEN /\ probe' = [probe EXCEPT ![t] = Reprobe(p, f, now)]
                /\ fs' = fs
           ELSE IF p.start_stamp # f.pulse
           THEN IF p.hint # Empty /\ p.hint.status = "running"
                THEN /\ probe' = [probe EXCEPT ![t] = Returned(p, Empty)]
                     /\ fs' = fs
                ELSE /\ fs' = [fs EXCEPT ![t] = MarkRunning(f, p.status, now)]
                     /\ probe' = [probe EXCEPT ![t] =
                            Returned(p, Result("running", p.status_files))]
           ELSE /\ fs' = [fs EXCEPT ![t] = Abort(f, p.status, now)]
                /\ probe' = [probe EXCEPT ![t] =
                       Returned(p, Result("aborted", p.status_files))]
    /\ UNCHANGED now
    /\ ProbeFrame

\* lines 635-644: has_job(); os.stat(task_file) raises when the record is gone
JobCheck(t) ==
    /\ probe[t].pc = "job"
    /\ LET f == fs[t]
           p == probe[t]
       IN  probe' = [probe EXCEPT ![t] =
               IF f.sh # 0 /\ f.task = 0 THEN Raised(p, "FileNotFoundError")
               ELSE IF HasJob(f) THEN [p EXCEPT !.pc = "job_body"]
               ELSE [p EXCEPT !.pc = "nojob_body"]]
    /\ UNCHANGED <<now, fs>>
    /\ ProbeFrame

\* lines 645-656
JobBody(t) ==
    /\ probe[t].pc = "job_body"
    /\ LET f == fs[t]
           p == probe[t]
           f1 == IF p.status # "submitted" THEN TfSetStatus(f, "submitted", now) ELSE f
       IN  IF f.task = 0
           THEN /\ probe' = [probe EXCEPT ![t] = Handler(p, f, now)]
                /\ fs' = fs
           ELSE /\ fs' = [fs EXCEPT ![t] = f1]
                /\ probe' = [probe EXCEPT ![t] =
                       IF f1.sh = 0 THEN Handler(p, f1, now)
                       ELSE Returned(p, Result("submitted", Evidence(f1.task, 0, f1.sh)))]
    /\ UNCHANGED now
    /\ ProbeFrame

\* lines 657-670
NoJobBody(t) ==
    /\ probe[t].pc = "nojob_body"
    /\ LET f == fs[t]
           p == probe[t]
       IN  probe' = [probe EXCEPT ![t] =
               IF f.task = 0 THEN Handler(p, f, now) ELSE UnchangedResult(p, f)]
    /\ UNCHANGED <<now, fs>>
    /\ ProbeFrame

\* the caller takes the result; a non-empty one becomes the hint of the next call
Finish(t) ==
    /\ probe[t].pc \in {"returned", "raised"}
    /\ cache' = [cache EXCEPT ![t] =
           IF probe[t].pc = "returned" /\ probe[t].result # Empty
           THEN probe[t].result ELSE cache[t]]
    /\ probe' = [probe EXCEPT ![t] = IdleProbe]
    /\ UNCHANGED <<now, byteorder, master, opVars, recVars, fs, events, sweep>>

-----------------------------------------------------------------------------
(* The other processes: the interpreter, the submitter, the executor *)

\* the steps the clock takes
TickSteps == {1, 6, 12}

Event(t) ==
    /\ events < MaxEvents
    /\ events' = events + 1
    /\ probe' = Disturb(probe, {t})
    /\ UNCHANGED <<now, byteorder, master, opVars, recVars, cache, sweep>>

\* TaskFile(t).save(params): a new record is written
SaveTask(t) ==
    /\ fs[t].task = 0
    /\ fs' = [fs EXCEPT ![t] = [@ EXCEPT !.task = now, !.status = TaskStatus.new]]
    /\ Event(t)

\* TaskFile(t).update(params): the task is submitted again
UpdateTask(t) ==
    /\ fs[t].task # 0
    /\ fs' = [fs EXCEPT ![t] = [@ EXCEPT !.task = now, !.status = TaskStatus.pending]]
    /\ Event(t)

\* the submitter writes {id}.sh
WriteJobFile(t) ==
    /\ fs[t].task # 0
    /\ fs' = [fs EXCEPT ![t] = [@ EXCEPT !.sh = now]]
    /\ Event(t)

\* the submitter writes {id}.job_id
WriteJobId(t) ==
    /\ fs[t].task # 0
    /\ fs' = [fs EXCEPT ![t] = [@ EXCEPT !.job_id = now]]
    /\ Event(t)

\* the executor appends to {id}.pulse
TouchPulse(t) ==
    /\ fs[t].task # 0
    /\ fs[t].pulse_w
    /\ fs' = [fs EXCEPT ![t] = [@ EXCEPT !.pulse = now]]
    /\ Event(t)

\* the executor writes {id}.out and {id}.err
WriteOutputs(t) ==
    /\ fs[t].task # 0
    /\ ~fs[t].out
    /\ fs' = [fs EXCEPT ![t] = [@ EXCEPT !.out = TRUE, !.err = TRUE]]
    /\ Event(t)

\* the executor ends: tf.status = 'completed' or 'failed'
ExecutorEnds(t, status) ==
    /\ fs[t].task # 0
    /\ fs' = [fs EXCEPT ![t] = TfSetStatus(@, status, now)]
    /\ Event(t)

\* the liveness file disappears when the job is completed (comment at line 629)
PulseVanishes(t) ==
    /\ fs[t].pulse # 0
    /\ fs' = [fs EXCEPT ![t] = [@ EXCEPT !.pulse = 0, !.pulse_w = TRUE]]
    /\ Event(t)

\* time passes
Tick(d) ==
    /\ events < MaxEvents
    /\ now + d <= MaxTime
    /\ now' = now + d
    /\ events' = events + 1
    /\ probe' = Disturb(probe, Tasks)
    /\ UNCHANGED <<byteorder, master, opVars, recVars, fs, cache, sweep>>

-----------------------------------------------------------------------------
(* kill_task, step by step *)

KillFrame == UNCHANGED <<now, byteorder, master, recVars, cache, events, sweep, purge, caller, lock>>

\* lines 1099-1102: kill_task(t) is called and reads the status
KillTask(t) ==
    /\ kill.pc = "idle"
    /\ LET f == fs[t]
           status == GetStatus(f, byteorder)
           k == [kill EXCEPT !.task = t, !.pre = [f |-> f, now |-> now, valid |-> TRUE],
                             !.post = f]
       IN  kill' = IF f.task = 0
                   THEN [k EXCEPT !.pc = "raised", !.result = "FileNotFoundError"]
                   ELSE IF status = "ValueError"
                   THEN [k EXCEPT !.pc = "raised", !.result = "ValueError"]
                   ELSE IF status = "completed"
                   THEN [k EXCEPT !.pc = "returned", !.result = "completed"]
                   ELSE [k EXCEPT !.pc = "remove", !.status = status]
    /\ UNCHANGED <<fs, probe>>
    /\ KillFrame

\* lines 1103-1108: the companion files are removed, the liveness file made read-only
KillRemove ==
    /\ kill.pc = "remove"
    /\ LET t == kill.task
           f1 == MakeReadOnly(RemoveJobFiles(fs[t]))
       IN  /\ fs' = [fs EXCEPT ![t] = f1]
           /\ kill' = [kill EXCEPT !.pc = "set", !.post = f1,
                                   !.pre.valid = @ /\ fs[t] = kill.pre.f]
           /\ probe' = Disturb(probe, {t})
    /\ KillFrame

\* lines 1109-1110: TaskFile(task).status = 'aborted'; return 'aborted'
KillSet ==
    /\ kill.pc = "set"
    /\ LET t == kill.task
           f == fs[t]
           f1 == TfSetStatus(f, "aborted", now)
       IN  IF f.task = 0
           THEN /\ kill' = [kill EXCEPT !.pc = "raised", !.result = "FileNotFoundError"]
                /\ UNCHANGED <<fs, probe>>
           ELSE /\ fs' = [fs EXCEPT ![t] = f1]
                /\ kill' = [kill EXCEPT !.pc = "returned", !.result = "aborted",
                                        !.pre.valid = @ /\ f = kill.post,
                                        !.post = f1, !.killed = @ \cup {t}]
                /\ probe' = Disturb(probe, {t})
    /\ KillFrame

\* the caller of kill_task goes on
KillEnds ==
    /\ kill.pc \in {"returned", "raised"}
    /\ kill' = [IdleKill EXCEPT !.killed = kill.killed]
    /\ UNCHANGED <<fs, probe>>
    /\ KillFrame

-----------------------------------------------------------------------------
(* purge_tasks, step by step *)

PurgeFrame == UNCHANGED <<now, byteorder, master, recVars, events, sweep, kill, caller, lock>>

\* lines 1113-1160: the ids are selected among the record files there are, and their
\* files are listed
PurgeTasks(tasks) ==
    /\ purge.pc = "idle"
    /\ tasks # {}
    /\ \A t \in tasks : fs[t].task # 0
    /\ purge' = [IdlePurge EXCEPT !.pc = "load", !.all_tasks = tasks,
                                  !.to_be_removed = fs, !.post = fs,
                                  !.purged = purge.purged]
    /\ UNCHANGED <<fs, probe, cache>>
    /\ PurgeFrame

\* lines 1162-1170: the cache is loaded
PurgeLoad ==
    /\ purge.pc = "load"
    /\ purge' = [purge EXCEPT !.pc = "remove", !.status_cache = cache,
                              !.todo = purge.all_tasks]
    /\ UNCHANGED <<fs, probe, cache>>
    /\ PurgeFrame

\* the loop body stopping at the first file that cannot be removed
PurgeOneStops(task, fail) ==
    /\ fs' = [fs EXCEPT ![task] = IF fail = "none"
                                  THEN RemoveAll(@, purge.to_be_removed[task], fail, FileKinds)
                                  ELSE @]
    /\ purge' = IF fail = "none"
                THEN [purge EXCEPT !.todo = @ \ {task},
                                   !.status_cache[task] = Empty,
                                   !.post[task] = fs'[task]]
                ELSE [purge EXCEPT !.todo = {}, !.failed[task] = fail,
                                   !.post[task] = fs'[task]]

\* lines 1171-1184: one turn of the loop over all_tasks
PurgeOne(task, fail) ==
    /\ fs' = [fs EXCEPT ![task] = RemoveAll(@, purge.to_be_removed[task], fail, FileKinds)]
    /\ purge' = [purge EXCEPT !.todo = @ \ {task},
                              !.status_cache[task] = Empty,
                              !.failed[task] = fail,
                              !.post[task] = fs'[task]]

PurgeRemove(task, fail) ==
    /\ purge.pc = "remove"
    /\ task \in purge.todo
    /\ IF fail = "none" THEN TRUE ELSE Present(purge.to_be_removed[task], fail)
    /\ PurgeOne(task, fail)
    /\ probe' = Disturb(probe, {task})
    /\ UNCHANGED cache
    /\ PurgeFrame

\* lines 1185-1187: the cache is stored
PurgeStore ==
    /\ purge.pc = "remove"
    /\ purge.todo = {}
    /\ cache' = purge.status_cache
    /\ purge' = [purge EXCEPT !.pc = "returned", !.stored = purge.status_cache,
                              !.purged = @ \cup purge.all_tasks]
    /\ UNCHANGED <<fs, probe>>
    /\ PurgeFrame

\* the caller of purge_tasks goes on
PurgeEnds ==
    /\ purge.pc = "returned"
    /\ purge' = [IdlePurge EXCEPT !.purged = purge.purged]
    /\ UNCHANGED <<fs, probe, cache>>
    /\ PurgeFrame

-----------------------------------------------------------------------------
(* Spec: one task, probed again and again while the other processes act *)

ProbedTask == "t1"

Init ==
    /\ now = 1
    /\ byteorder \in {"big", "little"}
    /\ exists = FALSE
    /\ header = NoHeader
    /\ body = <<>>
    /\ written = NoneWritten
    /\ lastOp = "none"
    /\ nops = 0
    /\ fs = [t \in Tasks |-> NoFiles]
    /\ probe = [t \in Tasks |-> IdleProbe]
    /\ cache = [t \in Tasks |-> Empty]
    /\ events = 0
    /\ sweep = IdleSweep
    /\ master = NewMaster(0)
    /\ kill = IdleKill
    /\ purge = IdlePurge
    /\ caller = NoCaller
    /\ lock = Free

Next ==
    \/ \E hint \in {Empty, cache[ProbedTask]} : CheckTask(ProbedTask, hint)
    \/ PulseCheck(ProbedTask)
    \/ PulseBody(ProbedTask)
    \/ Sleep(ProbedTask)
    \/ AfterSleep(ProbedTask)
    \/ JobCheck(ProbedTask)
    \/ JobBody(ProbedTask)
    \/ NoJobBody(ProbedTask)
    \/ Finish(ProbedTask)
    \/ SaveTask(ProbedTask)
    \/ UpdateTask(ProbedTask)
    \/ WriteJobFile(ProbedTask)
    \/ WriteJobId(ProbedTask)
    \/ TouchPulse(ProbedTask)
    \/ WriteOutputs(ProbedTask)
    \/ \E s \in {"completed", "failed"} : ExecutorEnds(ProbedTask, s)
    \/ PulseVanishes(ProbedTask)
    \/ \E d \in TickSteps : Tick(d)

Spec == Init /\ [][Next]_vars

-----------------------------------------------------------------------------
(* check_tasks, step by step *)

SweepFrame == UNCHANGED <<now, byteorder, master, opVars, recVars, fs, events>>

\* lines 673-683: check_tasks is called and loads the cache; a full sweep is made
\* over record files that exist (print_task_status, purge_tasks)
CheckTasks(tasks, is_all) ==
    /\ sweep.pc = "idle"
    /\ tasks # {}
    /\ is_all => \A t \in tasks : fs[t].task # 0
    /\ \A t \in Tasks : probe[t].pc = "idle"
    /\ sweep' = [IdleSweep EXCEPT !.pc = "probing", !.tasks = tasks, !.is_all = is_all,
                                  !.status_cache = cache]
    /\ UNCHANGED <<probe, cache>>
    /\ SweepFrame

\* lines 686-689: a pool thread calls check_task(x, status_cache.get(x, {}))
PoolCall(t) ==
    /\ sweep.pc = "probing"
    /\ t \in sweep.tasks \ sweep.started
    /\ probe[t].pc = "idle"
    /\ probe' = [probe EXCEPT ![t] = Enter(fs[t], sweep.status_cache[t], now)]
    /\ sweep' = [sweep EXCEPT !.started = @ \cup {t}]
    /\ UNCHANGED cache
    /\ SweepFrame

\* the call of the pool thread ends: its result, or its exception, is kept
PoolResult(t) ==
    /\ sweep.pc = "probing"
    /\ probe[t].pc \in {"returned", "raised"}
    /\ sweep' = [sweep EXCEPT !.raw[t] = probe[t].result]
    /\ probe' = [probe EXCEPT ![t] = IdleProbe]
    /\ UNCHANGED cache
    /\ SweepFrame

\* starmap re-raises the exception of a probe: check_tasks is left by it
StarmapRaises(raw, tasks) == \E t \in tasks : raw[t] \in Errors

\* lines 688-703: starmap has every result; merge, store when something changed, return
Starmap ==
    /\ sweep.pc = "probing"
    /\ \A t \in sweep.tasks : sweep.raw[t] # NotRun
    /\ IF StarmapRaises(sweep.raw, sweep.tasks)
       THEN /\ sweep' = [sweep EXCEPT !.pc = "raised"]
            /\ cache' = cache
       ELSE LET merged == Merged(sweep.status_cache, sweep.tasks, sweep.is_all, sweep.raw)
            IN  /\ sweep' = [sweep EXCEPT !.pc = "returned", !.status_cache = merged,
                                          !.ret = merged]
                /\ cache' = IF HasChanges(sweep.tasks, sweep.raw) THEN merged ELSE cache
    /\ UNCHANGED probe
    /\ SweepFrame

\* the caller of check_tasks goes on
SweepEnds ==
    /\ sweep.pc \in {"returned", "raised"}
    /\ sweep' = IdleSweep
    /\ UNCHANGED <<probe, cache>>
    /\ SweepFrame

SweepEvent == events < MaxSweepEvents

NextSweep ==
    \/ \E ts \in SUBSET Tasks, is_all \in BOOLEAN : CheckTasks(ts, is_all)
    \/ \E t \in Tasks : PoolCall(t)
    \/ \E t \in Tasks : PoolResult(t)
    \/ Starmap
    \/ SweepEnds
    \/ \E t \in Tasks : PulseCheck(t)
    \/ \E t \in Tasks : PulseBody(t)
    \/ \E t \in Tasks : Sleep(t)
    \/ \E t \in Tasks : AfterSleep(t)
    \/ \E t \in Tasks : JobCheck(t)
    \/ \E t \in Tasks : JobBody(t)
    \/ \E t \in Tasks : NoJobBody(t)
    \/ \E t \in Tasks : SweepEvent /\ SaveTask(t)
    \/ \E t \in Tasks : SweepEvent /\ WriteJobFile(t)
    \/ \E t \in Tasks : SweepEvent /\ WriteJobId(t)
    \/ \E t \in Tasks : SweepEvent /\ TouchPulse(t)
    \/ \E t \in Tasks : SweepEvent /\ PulseVanishes(t)
    \/ \E d \in TickSteps : SweepEvent /\ Tick(d)

SpecSweep == Init /\ [][NextSweep]_vars

\* the sweep has ended and the probe of one of its tasks had raised
ProbeRaisedInSweep ==
    /\ sweep.pc \in {"returned", "raised"}
    /\ \E t \in sweep.tasks : sweep.raw[t] \in Errors

\* C9: an error raised by the probe of one task does not abort the sweep: check_tasks
\* returns, and the status of every other queried task is returned and cached
C9_SweepSurvivesProbeError ==
    ProbeRaisedInSweep =>
        /\ sweep.pc = "returned"
        /\ \A t \in sweep.tasks :
              sweep.raw[t] \notin Errors => (sweep.ret[t] # Empty /\ cache[t] = sweep.ret[t])

\* C10: the mapping returned has an entry for every queried task and, for a full
\* sweep, no other key, whether or not a probe reported a change
C10_ReturnedKeys ==
    sweep.pc = "returned" =>
        /\ \A t \in sweep.tasks : sweep.ret[t] # Empty
        /\ sweep.is_all => Keys(sweep.ret) = sweep.tasks

\* C10 for the sweeps in which a probe reported a change, and for the partial ones
C10_WhenChanged ==
    (sweep.pc = "returned" /\ (HasChanges(sweep.tasks, sweep.raw) \/ ~sweep.is_all)) =>
        /\ \A t \in sweep.tasks : sweep.ret[t] # Empty
        /\ sweep.is_all => Keys(sweep.ret) = sweep.tasks

-----------------------------------------------------------------------------
(* Properties of check_task.  They are stated of a call that has ended     *)
(* while nothing else acted since it was entered: probe[t].pre then holds  *)
(* the files and the time as they were at the call.                        *)

\* the call of t has ended (by return or by an exception), undisturbed
Ended(t) == probe[t].pc \in {"returned", "raised"} /\ probe[t].pre.valid

\* the status stored in the record
Stored(f) == TaskStatusName(f.status)

\* the hint names files and every one of them is as the hint recorded it
HintMatches(f, hint) ==
    /\ hint # Empty
    /\ \A k \in EvidenceKeys :
          hint.files[k] # NoKey =>
              IF hint.files[k] = 0 THEN f[k] = 0 ELSE f[k] = hint.files[k]

\* C1: a record in a terminal status, no short-circuit by the hint: the call returns
\* that status with the record's mtime and touches no file
C1_TerminalSticky ==
    \A t \in Tasks :
        LET p == probe[t] IN
        (/\ Ended(t)
         /\ p.pre.f.task # 0
         /\ Stored(p.pre.f) \in {"completed", "failed", "aborted"}
         /\ ~(HintMatches(p.pre.f, p.hint) /\ p.hint.status \notin {"pending", "running"}))
        => /\ p.pc = "returned"
           /\ p.result = Result(Stored(p.pre.f), Evidence(p.pre.f.task, NoKey, NoKey))
           /\ fs[t] = p.pre.f

\* C1 on a host whose byte order is that of the header
C1_OnBigEndian == byteorder = "big" => C1_TerminalSticky

\* C2 as claimed: a hint of any status whose evidence matches gives the empty result
C2_AnyHintShortCircuits ==
    \A t \in Tasks :
        LET p == probe[t] IN
        (/\ p.pc = "returned"
         /\ p.pre.valid
         /\ HintMatches(p.pre.f, p.hint))
        => p.result = Empty

\* C2 amended: a hint whose status is neither pending nor running and whose evidence
\* matches the files gives the empty result, and the call touches no file
C2_NonLiveHintShortCircuits ==
    \A t \in Tasks :
        LET p == probe[t] IN
        (/\ Ended(t)
         /\ HintMatches(p.pre.f, p.hint)
         /\ p.hint.status \notin {"pending", "running"})
        => /\ p.pc = "returned"
           /\ p.result = Empty
           /\ fs[t] = p.pre.f

\* a call with a submitted hint, whose evidence records the liveness file as missing,
\* has returned the empty result
C2_Witness ==
    LET p == probe[ProbedTask] IN
    /\ Ended(ProbedTask)
    /\ p.hint.status = "submitted"
    /\ HintMatches(p.pre.f, p.hint)
    /\ p.result = Empty

\* a call without hint on a record not in a terminal status whose liveness file is
\* older than twice the threshold
StalledCase(t) ==
    LET p == probe[t] IN
    /\ Ended(t)
    /\ p.hint = Empty
    /\ p.pre.f.task # 0
    /\ Stored(p.pre.f) \in {"new", "pending", "submitted", "running"}
    /\ p.pre.f.pulse # 0
    /\ p.pre.now - p.pre.f.pulse > 2 * monitor_interval

\* aborted is returned, the record is aborted and the companion files are gone
StalledOutcome(t) ==
    /\ probe[t].pc = "returned"
    /\ probe[t].result.status = "aborted"
    /\ Stored(fs[t]) = "aborted"
    /\ fs[t].sh = 0 /\ fs[t].job_id = 0 /\ fs[t].pulse = 0
    /\ ~fs[t].out /\ ~fs[t].err

\* C6: a record not in a terminal status, a liveness file older than twice the
\* threshold, a call without hint: the companion files are deleted, the record is
\* set to aborted and aborted is returned
C6_StalledAborted == \A t \in Tasks : StalledCase(t) => StalledOutcome(t)

\* C6 on a host whose byte order is that of the header
C6_OnBigEndian == byteorder = "big" => C6_StalledAborted

\* C6 with the liveness file not older than the record by more than a second
C6_Fresh ==
    \A t \in Tasks :
        (StalledCase(t) /\ probe[t].pre.f.pulse >= probe[t].pre.f.task - 1)
            => StalledOutcome(t)

\* C6 with both
C6_FreshOnBigEndian == byteorder = "big" => C6_Fresh

\* a call on a record not in a terminal status whose writable liveness file is
\* younger than the threshold
LiveCase(t) ==
    LET p == probe[t] IN
    /\ Ended(t)
    /\ p.pre.f.task # 0
    /\ Stored(p.pre.f) \in {"new", "pending", "submitted", "running"}
    /\ p.pre.f.pulse # 0
    /\ p.pre.f.pulse_w
    /\ p.pre.now - p.pre.f.pulse < monitor_interval

\* running is returned (the empty result only when the hint says running) and the
\* record is running
LiveOutcome(t) ==
    LET p == probe[t] IN
    /\ p.pc = "returned"
    /\ \/ p.result.status = "running"
       \/ p.result = Empty /\ p.hint.status = "running"
    /\ Stored(fs[t]) = "running"

\* C7: a record not in a terminal status, a writable liveness file younger than the
\* threshold: running is returned (the empty result only when the hint says running)
\* and the record is running afterwards
C7_LiveRunning == \A t \in Tasks : LiveCase(t) => LiveOutcome(t)

\* C7 on a host whose byte order is that of the header
C7_OnBigEndian == byteorder = "big" => C7_LiveRunning

\* C7 with the liveness file not older than the record by more than a second and a
\* hint, if any, of a live status
C7_Fresh ==
    \A t \in Tasks :
        (/\ LiveCase(t)
         /\ probe[t].pre.f.pulse >= probe[t].pre.f.task - 1
         /\ probe[t].hint # Empty => probe[t].hint.status \in {"pending", "running"})
            => LiveOutcome(t)

\* C7 with both
C7_FreshOnBigEndian == byteorder = "big" => C7_Fresh

\* what a call without hint does to a new record without liveness file when
\* `submitted` tells whether the submission was found
NotStarted(t, submitted) ==
    LET p == probe[t]
        f == p.pre.f
    IN  /\ p.pc = "returned"
        /\ IF submitted
           THEN /\ p.result = Result("submitted", Evidence(p.pre.now, 0, f.sh))
                /\ fs[t] = [f EXCEPT !.status = TaskStatus.submitted, !.task = p.pre.now]
           ELSE /\ p.result.status = "new"
                /\ fs[t] = f

\* a call without hint on a record in status new that has no liveness file
NotStartedCase(t) ==
    /\ Ended(t)
    /\ probe[t].hint = Empty
    /\ probe[t].pre.f.task # 0
    /\ Stored(probe[t].pre.f) = "new"
    /\ probe[t].pre.f.pulse = 0

\* C8 as claimed: submitted exactly when a submission script and a job-id marker, both
\* not older than the record, exist
C8_BothNewerThanRecord ==
    \A t \in Tasks :
        LET f == probe[t].pre.f IN
        NotStartedCase(t) =>
            NotStarted(t, f.sh # 0 /\ f.sh >= f.task /\ f.job_id # 0 /\ f.job_id >= f.task)

\* C8 amended: submitted exactly when a submission script not older than the record
\* and a job-id marker not older than that script exist; else new, record unchanged
C8_ScriptThenJobId ==
    \A t \in Tasks :
        LET f == probe[t].pre.f IN
        NotStartedCase(t) =>
            NotStarted(t, f.sh # 0 /\ f.sh >= f.task /\ f.job_id # 0 /\ f.job_id >= f.sh)

\* a call has found the submission and returned submitted
C8_Witness ==
    /\ NotStartedCase(ProbedTask)
    /\ probe[ProbedTask].result.status = "submitted"
    /\ Stored(fs[ProbedTask]) = "submitted"

\* the order in which a task advances before it ends
StatusOrder == <<"new", "pending", "submitted", "running">>

Rank(status) == CHOOSE i \in 1..Len(StatusOrder) : StatusOrder[i] = status

InOrder(status) == \E i \in 1..Len(StatusOrder) : StatusOrder[i] = status

\* from a to b is a move to a later state of the order, or into aborted
ForwardMove(a, b) ==
    \/ b = "aborted"
    \/ InOrder(a) /\ InOrder(b) /\ Rank(a) < Rank(b)

\* this step is check_task storing another status in the record of t
ProbeWrites(t) ==
    /\ events' = events
    /\ kill' = kill
    /\ purge' = purge
    /\ fs'[t].status # fs[t].status

\* C18: every status that check_task stores moves the record forward in the order
\* new, pending, submitted, running, or into aborted
C18_ForwardOnly ==
    [][\A t \in Tasks : ProbeWrites(t) => ForwardMove(Stored(fs[t]), Stored(fs'[t]))]_vars

\* the case named by C18: a record that is running is not set back to submitted
\* (the step back takes five steps of the other processes)
C18_RunningToSubmitted ==
    [][\A t \in Tasks :
          ProbeWrites(t) => ~(Stored(fs[t]) = "running" /\ Stored(fs'[t]) = "submitted")]_vars

\* C19: a check_task call stores no status over a completed or failed that another
\* process wrote while the call was in progress
C19_TerminalNotOverwritten ==
    [][\A t \in Tasks :
          ProbeWrites(t) => Stored(fs[t]) \notin {"completed", "failed"}]_vars

\* C19 for the calls that find a stalled liveness file: they compare the record's
\* modification time with the one they started from before they store aborted
C19_AbortLooksAgain ==
    [][\A t \in Tasks :
          (/\ ProbeWrites(t)
           /\ Stored(fs'[t]) = "aborted"
           /\ fs[t].pulse_w
           /\ fs[t].task # probe[t].mtime)
              => Stored(fs[t]) \notin {"completed", "failed"}]_vars

-----------------------------------------------------------------------------
(* TaskFile: the writers, one action each *)

\* _get_content(ext): b'' when the companion file is missing
GetContent(c) == IF c = NoFile THEN <<>> ELSE Compress(c)

\* what the caller expects an accessor to return for a written value
Expect(w) == IF w = None THEN <<>> ELSE w

\* one more TaskFile call
Call(op) ==
    /\ nops < MaxOps
    /\ nops' = nops + 1
    /\ lastOp' = op

\* a save() that rewrites a record that is already there
SaveExistingOverwrites ==
    /\ exists' = TRUE
    /\ header' = SaveHeader(now, <<>>, Len(Compress(<<>>)))
    /\ body' = Compress(<<>>)
    /\ written' = [NoneWritten EXCEPT !["params"] = <<>>]

\* save() on a record file that exists: return at once
SaveExisting ==
    UNCHANGED <<exists, header, body, written>>

\* save() when there is no record file: tags = params.tags; del params.tags; pickle the rest
SaveNew(p) ==
    LET tags == p.tags
        stripped == DelTags(p)
        params_block == Compress(Pickle(stripped))
    IN  /\ exists' = TRUE
        /\ header' = SaveHeader(now, tags, Len(params_block))
        /\ body' = params_block
        /\ written' = [NoneWritten EXCEPT !["params"] = Pickle(stripped)]
        /\ caller' = [created |-> TRUE, arg |-> p, left |-> stripped]

Save(params, tags) ==
    /\ Call("save")
    /\ LET p == TaskParams(params, tags)
       IN  IF exists
           THEN /\ SaveExisting
                /\ caller' = [created |-> FALSE, arg |-> p, left |-> p]
           ELSE SaveNew(p)
    /\ UNCHANGED <<now, byteorder, master, kill, purge, lock, probeVars, sweep>>

Update(params) ==
    /\ exists
    /\ Call("update")
    /\ LET params_block == Compress(params)
           h == UpdateHeader(header, now, Len(params_block))
       IN  /\ header' = h
           /\ body' = Truncate(WriteAt(body, 0, params_block), h.params_size)
           /\ written' = [NoneWritten EXCEPT !["params"] = params]
    /\ UNCHANGED <<now, byteorder, master, opVars, exists, probeVars, sweep>>

\* a _reset(fh) without fh.truncate
ResetBodyKeepsBytes(h, b) == b

\* the bytes left by _reset(fh)
ResetBody(h, b) == Truncate(b, h.params_size)

Reset ==
    /\ exists
    /\ Call("reset")
    /\ header' = ResetHeader(header, now)
    /\ body' = ResetBody(header, body)
    /\ written' = [NoneWritten EXCEPT !["params"] = written["params"]]
    /\ UNCHANGED <<now, byteorder, master, opVars, exists, probeVars, sweep>>

\* the header add_outputs writes: the one it read before _reset, with three sizes replaced
AddOutputsHeader(h, pulse, stdout, stderr) ==
    [h EXCEPT !.pulse_size = Len(pulse), !.stdout_size = Len(stdout),
              !.stderr_size = Len(stderr)]

\* the bytes add_outputs leaves: _reset's truncation when a result is attached, then
\* the three blocks written one after the other from the end of params
AddOutputsBody(h, b, pulse, stdout, stderr) ==
    LET b0 == IF h.result_size # 0 THEN ResetBody(h, b) ELSE b
    IN  WriteAt(b0, h.params_size, pulse \o stdout \o stderr)

AddOutputs(cpulse, cout, cerr) ==
    /\ exists
    /\ Call("add_outputs")
    /\ LET pulse  == GetContent(cpulse)
           stdout == GetContent(cout)
           stderr == GetContent(cerr)
       IN  /\ header' = AddOutputsHeader(header, pulse, stdout, stderr)
           /\ body' = AddOutputsBody(header, body, pulse, stdout, stderr)
    /\ written' = [s \in Sections |->
                      CASE s = "pulse"  -> cpulse
                        [] s = "stdout" -> cout
                        [] s = "stderr" -> cerr
                        [] s = "params" -> written[s]
                        [] OTHER -> IF header.result_size # 0 THEN None ELSE written[s]]
    /\ UNCHANGED <<now, byteorder, master, opVars, exists, probeVars, sweep>>

\* the bytes add_result leaves
AddResultBody(h, b, block) == WriteAt(b, Offset(h, "result"), block)

AddResult(result) ==
    /\ exists
    /\ Call("add_result")
    /\ LET result_block == Compress(result)
           h == [header EXCEPT !.result_size = Len(result_block)]
       IN  /\ header' = h
           /\ body' = AddResultBody(h, body, result_block)
    /\ written' = [written EXCEPT !["result"] = result]
    /\ UNCHANGED <<now, byteorder, master, opVars, exists, probeVars, sweep>>

\* the bytes add_signature leaves
AddSignatureBody(h, b, block) == WriteAt(b, Offset(h, "signature"), block)

AddSignature(signature) ==
    /\ exists
    /\ Call("add_signature")
    /\ LET signature_block == Compress(signature)
           h == [header EXCEPT !.signature_size = Len(signature_block)]
       IN  /\ header' = h
           /\ body' = AddSignatureBody(h, body, signature_block)
    /\ written' = [written EXCEPT !["signature"] = signature]
    /\ UNCHANGED <<now, byteorder, master, opVars, exists, probeVars, sweep>>

\* the values a caller assigns to tf.status
StatusInputs == StatusNames \cup {"unknown"}

\* the name under which the assignment tf.status = status is recorded in lastOp
SetterOp ==
    [new |-> "status=new", pending |-> "status=pending", submitted |-> "status=submitted",
     running |-> "status=running", aborted |-> "status=aborted", failed |-> "status=failed",
     completed |-> "status=completed", unknown |-> "status=unknown"]

\* tf.status = status; an unrecognized status raises before anything is written
SetStatus(status) ==
    /\ exists
    /\ Call(SetterOp[status])
    /\ header' = IF StatusRecognized(status)
                 THEN SetStatusHeader(header, status, now)
                 ELSE header
    /\ UNCHANGED <<now, byteorder, master, opVars, exists, body, written, probeVars, sweep>>

\* time passes
TickRecord ==
    /\ nops < MaxOps
    /\ nops' = nops + 1
    /\ now' = now + 1
    /\ UNCHANGED <<byteorder, master, opVars, exists, header, body, written, lastOp, probeVars, sweep>>

InitRecord ==
    /\ now = 1
    /\ byteorder \in {"big", "little"}
    /\ exists = FALSE
    /\ header = NoHeader
    /\ body = <<>>
    /\ written = NoneWritten
    /\ lastOp = "none"
    /\ nops = 0
    /\ fs = [t \in Tasks |-> NoFiles]
    /\ probe = [t \in Tasks |-> IdleProbe]
    /\ cache = [t \in Tasks |-> Empty]
    /\ events = 0
    /\ sweep = IdleSweep
    /\ master = NewMaster(0)
    /\ kill = IdleKill
    /\ purge = IdlePurge
    /\ caller = NoCaller
    /\ lock = Free

NextRecord ==
    \/ \E p \in Contents, t \in TagInputs : Save(p, t)
    \/ \E p \in Contents : Update(p)
    \/ Reset
    \/ \E cp \in CompanionStates, co \in CompanionStates, ce \in CompanionStates :
          AddOutputs(cp, co, ce)
    \/ \E r \in Contents : AddResult(r)
    \/ \E s \in Contents : AddSignature(s)
    \/ \E s \in StatusInputs : SetStatus(s)
    \/ TickRecord

SpecRecord == InitRecord /\ [][NextRecord]_vars

-----------------------------------------------------------------------------
(* Properties of the record *)

FileLength == header_size + Len(body)

\* C3: header size plus the six section sizes is the length of the record file
C3_HeaderLength == exists => header_size + SizeSum(header) = FileLength

\* C4: every accessor returns what was last written for its section
C4_ReadBack == exists => \A sec \in Sections : Accessor(header, body, sec) = Expect(written[sec])

\* C13: assigning any of the seven states makes it the status of the record
C13_SetAnyOfSeven ==
    \A s \in StatusNames : lastOp = SetterOp[s] => header.status = TaskStatus[s]

\* C13 for the six states other than new
C13_SetButNew ==
    \A s \in StatusNames \ {"new"} : lastOp = SetterOp[s] => header.status = TaskStatus[s]

\* the stored bytes of section sec cannot be decoded
Undecodable(sec) ==
    /\ SizeOf(header, sec) > 0
    /\ Decompress(ReadAt(body, Offset(header, sec), SizeOf(header, sec))) = LZMAError

\* C16: the accessor of a section whose bytes cannot be decoded does not raise: it
\* returns the sentinel failure result for result and the empty value for the others
C16_SoftDecodeErrors ==
    exists =>
        \A sec \in Sections :
            Undecodable(sec) =>
                Accessor(header, body, sec) = (IF sec = "result" THEN ret_code_1 ELSE <<>>)

\* C16 for the sections other than params and signature
C16_TextAndResult ==
    exists =>
        \A sec \in Sections \ {"params", "signature"} :
            Undecodable(sec) =>
                Accessor(header, body, sec) = (IF sec = "result" THEN ret_code_1 ELSE <<>>)

\* what the params accessor hands back: the unpickled object
ReadParams == Unpickle(GetParams(header, body))

\* the last call was a save() that created the record
SavedNew == exists /\ lastOp = "save" /\ caller.created

\* C17: after save(p) has created the record, the params accessor returns an object
\* equal to p, and the caller's p is as it was before the call
C17_RoundTrip ==
    SavedNew => (ReadParams = caller.arg /\ caller.left = caller.arg)

\* what does come back is p without its tags, which is also what the caller is left with
C17_ModuloTags ==
    SavedNew => (ReadParams = DelTags(caller.arg) /\ caller.left = DelTags(caller.arg))

\* C5: a save() on an existing record changes nothing of it
C5_SaveNeverOverwrites ==
    [][(lastOp' = "save" /\ nops' = nops + 1 /\ exists)
          => (exists' /\ header' = header /\ body' = body)]_vars

\* a save() has run on a record that was modified after its creation
C5_Witness ==
    /\ lastOp = "save"
    /\ exists
    /\ nops >= 3
    /\ header.status # TaskStatus.new \/ header.result_size > 0


-----------------------------------------------------------------------------
(* SpecMaster: sub-tasks are pushed into one master *)

InitMaster ==
    /\ now = 1
    /\ byteorder = "little"
    /\ exists = FALSE
    /\ header = NoHeader
    /\ body = <<>>
    /\ written = NoneWritten
    /\ lastOp = "none"
    /\ nops = 0
    /\ fs = [t \in Tasks |-> NoFiles]
    /\ probe = [t \in Tasks |-> IdleProbe]
    /\ cache = [t \in Tasks |-> Empty]
    /\ events = 0
    /\ sweep = IdleSweep
    /\ master \in {NewMaster(w) : w \in 0..MaxWorkers}
    /\ kill = IdleKill
    /\ purge = IdlePurge
    /\ caller = NoCaller
    /\ lock = Free

\* the sub-tasks of a step are pushed one after the other; the k-th call pushes sub-task k
NextMaster ==
    \E params \in RuntimeInputs :
        Push(master.calls + 1, params, TagsOf(master.calls + 1))

SpecMaster == InitMaster /\ [][NextMaster]_vars

\* every push so far was made with the same, defined walltime, cores and mem
IdenticalDefined ==
    /\ ~master.raised
    /\ master.calls = Len(master.task_stack)
    /\ master.first.walltime # Undef
    /\ master.first.cores # Undef
    /\ master.first.mem # Undef

\* the grid of the specification: rows and columns of N tasks over w workers
Rows(N, w) == IF w > 1 THEN (N + w - 1) \div w ELSE 1

Cols(N, w) == IF Rows(N, w) > 1 THEN w ELSE N

\* the resources the master is to hold for N tasks like first
BatchResources(N, w, first) ==
    /\ master.runtime.walltime = format_HHMMSS(Rows(N, w) * expand_time(first.walltime))
    /\ master.runtime.cores = <<Cols(N, w) * first.cores[1] + (IF w > 0 THEN 1 ELSE 0)>>
    /\ master.runtime.mem = <<Cols(N, w) * first.mem[1] + (IF w > 0 THEN MasterMem ELSE 0)>>

\* C11: after N >= 2 pushes of sub-tasks with the same defined walltime, cores and mem
\* the master holds rows x walltime, cols x cores + 1 and cols x mem + 100MB (the
\* additions only when num_workers > 0)
C11_BatchResources ==
    (IdenticalDefined /\ Len(master.task_stack) >= 2) =>
        BatchResources(Len(master.task_stack), master.num_workers, master.first)

\* C11 for masters with more than one worker
C11_SeveralWorkers == master.num_workers > 1 => C11_BatchResources


\* the last call was a second or later push
LaterPush == master.calls >= 2

\* C12 as claimed: a second or later push raises exactly when the pushed value of a key
\* differs from the value the sub-tasks already pushed define for it
C12_DefinedOnly ==
    LaterPush =>
        (master.raised <=>
            \E i \in DOMAIN RuntimeKeys :
                /\ master.first[RuntimeKeys[i]] # Undef
                /\ master.pushed[RuntimeKeys[i]] # master.first[RuntimeKeys[i]])

\* C12 amended: a second or later push raises exactly when the pushed value of a key
\* differs from that of the first sub-task, an undefined value differing from every
\* defined one
C12_AnyDifference ==
    LaterPush =>
        (master.raised <=>
            \E i \in DOMAIN RuntimeKeys :
                master.pushed[RuntimeKeys[i]] # master.first[RuntimeKeys[i]])

\* a push of a sub-task with other cores than the first one has raised
C12_Witness ==
    /\ LaterPush
    /\ master.raised
    /\ master.first.cores = <<1>>
    /\ master.pushed.cores = <<2>>
    /\ master.pushed.walltime = master.first.walltime


-----------------------------------------------------------------------------
(* SpecKill: one task is probed and killed while the other processes act *)

KillEvent == events < MaxKillEvents

NextKill ==
    \/ \E hint \in {Empty, cache[ProbedTask]} : CheckTask(ProbedTask, hint)
    \/ PulseCheck(ProbedTask)
    \/ PulseBody(ProbedTask)
    \/ Sleep(ProbedTask)
    \/ AfterSleep(ProbedTask)
    \/ JobCheck(ProbedTask)
    \/ JobBody(ProbedTask)
    \/ NoJobBody(ProbedTask)
    \/ Finish(ProbedTask)
    \/ KillTask(ProbedTask)
    \/ KillRemove
    \/ KillSet
    \/ KillEnds
    \/ KillEvent /\ SaveTask(ProbedTask)
    \/ KillEvent /\ WriteJobFile(ProbedTask)
    \/ KillEvent /\ WriteJobId(ProbedTask)
    \/ KillEvent /\ WriteOutputs(ProbedTask)
    \/ KillEvent /\ TouchPulse(ProbedTask)
    \/ KillEvent /\ ExecutorEnds(ProbedTask, "completed")
    \/ \E d \in TickSteps : KillEvent /\ Tick(d)

SpecKill == Init /\ [][NextKill]_vars

\* the kill_task call has ended and nothing else touched the files of its task meanwhile
KillEnded == kill.pc \in {"returned", "raised"} /\ kill.pre.valid

\* what kill_task leaves of files f when it aborts the task
Killed(f, post) ==
    /\ post.sh = 0 /\ post.job_id = 0 /\ ~post.out /\ ~post.err
    /\ post.pulse = f.pulse
    /\ post.pulse_w = (f.pulse = 0 /\ f.pulse_w)
    /\ Stored(post) = "aborted"

\* C14: kill_task on a completed record changes nothing and returns completed; on a
\* record in another status it deletes .sh, .job_id, .out and .err, makes a liveness
\* file read-only, sets the status to aborted and returns aborted
C14_KillTask ==
    (KillEnded /\ kill.pre.f.task # 0) =>
        /\ kill.pc = "returned"
        /\ IF kill.pre.f.status = TaskStatus.completed
           THEN kill.result = "completed" /\ kill.post = kill.pre.f
           ELSE kill.result = "aborted" /\ Killed(kill.pre.f, kill.post)

C14_OnBigEndian == byteorder = "big" => C14_KillTask


-----------------------------------------------------------------------------
(* SpecPurge: tasks are probed and purged while the other processes act *)

PurgeEvent == events < MaxPurgeEvents

\* the files whose removal fails
FailKinds == {"none", "task", "sh"}

NextPurge ==
    \/ \E hint \in {Empty, cache[ProbedTask]} : CheckTask(ProbedTask, hint)
    \/ PulseCheck(ProbedTask)
    \/ PulseBody(ProbedTask)
    \/ JobCheck(ProbedTask)
    \/ JobBody(ProbedTask)
    \/ NoJobBody(ProbedTask)
    \/ Finish(ProbedTask)
    \/ \E ts \in SUBSET Tasks : PurgeTasks(ts)
    \/ PurgeLoad
    \/ \E t \in Tasks, fail \in FailKinds : PurgeRemove(t, fail)
    \/ PurgeStore
    \/ PurgeEnds
    \/ \E t \in Tasks : PurgeEvent /\ SaveTask(t)
    \/ PurgeEvent /\ WriteJobFile(ProbedTask)
    \/ PurgeEvent /\ WriteJobId(ProbedTask)
    \/ PurgeEvent /\ TouchPulse(ProbedTask)

SpecPurge == Init /\ [][NextPurge]_vars

\* purge_tasks has removed every file it had listed for task, but the one that failed
FilesRemoved(task) ==
    \A k \in FileKinds :
        (Present(purge.to_be_removed[task], k) /\ k # purge.failed[task])
            => ~Present(purge.post[task], k)

\* C15: when purge_tasks returns, no selected id is in the cache it stored, every file
\* listed for a selected task is removed but one whose removal failed, and a check_task
\* called without a hint on a purged id whose record is gone returns missing
C15_Purged ==
    /\ purge.pc = "returned" =>
          \A t \in purge.all_tasks :
              /\ purge.stored[t] = Empty
              /\ FilesRemoved(t)
    /\ \A t \in purge.purged :
          (Ended(t) /\ probe[t].hint = Empty /\ probe[t].pre.f.task = 0)
              => /\ probe[t].pc = "returned"
                 /\ probe[t].result = Result("missing", Evidence(0, NoKey, NoKey))

\* two tasks were purged, the record of one of them could not be removed, and a
\* check_task on the other one has found its record gone
C15_Witness ==
    /\ purge.pc = "returned"
    /\ purge.all_tasks = Tasks
    /\ \E t \in Tasks : purge.failed[t] = "task"
    /\ purge.failed[ProbedTask] = "none"
    /\ Ended(ProbedTask)
    /\ probe[ProbedTask].hint = Empty
    /\ probe[ProbedTask].result.status = "missing"

-----------------------------------------------------------------------------
(* kill_task against the probes *)

\* kill_task has returned aborted for t and the record still says so
KilledAborted(t) == t \in kill.killed /\ Stored(fs[t]) = "aborted"

\* this step belongs to check_task: no other process and no kill_task call moves
ProbeStep == events' = events /\ kill' = kill

\* a check_task call on t that began on an aborted record of a killed task has ended
ProbedAfterKill(t) ==
    /\ Ended(t)
    /\ t \in kill.killed
    /\ Stored(probe[t].pre.f) = "aborted"

\* the call returned aborted, or the empty result on a hint that says aborted
ReturnedAborted(t) ==
    /\ probe[t].pc = "returned"
    /\ \/ probe[t].result.status = "aborted"
       \/ probe[t].result = Empty /\ probe[t].hint.status = "aborted"

\* no step of check_task takes the record of a killed task out of aborted
C20_StaysAborted ==
    [][\A t \in Tasks :
          (KilledAborted(t) /\ ProbeStep) => Stored(fs'[t]) = "aborted"]_vars

\* every probe started after the kill returns aborted
C20_LaterProbes ==
    \A t \in Tasks : ProbedAfterKill(t) => ReturnedAborted(t)

\* C20: once kill_task has returned aborted, no check_task step stores another status
\* over it, and every check_task call started afterwards returns aborted
C20_KillIsFinal ==
    [][\A t \in Tasks :
          /\ (KilledAborted(t) /\ ProbeStep) => Stored(fs'[t]) = "aborted"
          /\ ProbedAfterKill(t)' => ReturnedAborted(t)']_vars

\* C20 for the probes that begin after the kill, where the status can be read and the
\* hint of the call is not one that the files still match
C20_LaterProbesOnBigEndian ==
    byteorder = "big" =>
        \A t \in Tasks :
            (ProbedAfterKill(t) /\ ~HintMatches(probe[t].pre.f, probe[t].hint))
                => ReturnedAborted(t)

-----------------------------------------------------------------------------
(* The empty result of check_task against a call without a hint *)

\* the status check_task(task) returns, or the error it raises, when it is called with
\* no hint on files f at time t and nothing else touches the files during the call
FreshStatus(f, t) ==
    LET status == GetStatus(f, byteorder)
    IN  IF f.task = 0 THEN "missing"
        ELSE IF status = "ValueError" THEN "ValueError"
        ELSE IF status \in Terminal THEN status
        ELSE IF PulseFresh(f)
        THEN IF ~f.pulse_w THEN "aborted"
             ELSE IF t - f.pulse < monitor_interval THEN "running"
             ELSE "aborted"
        ELSE IF HasJob(f) THEN "submitted"
        ELSE status

\* a check_task call on t has returned the empty result and nothing has moved since
ReturnedEmpty(t) ==
    /\ Ended(t)
    /\ probe[t].pc = "returned"
    /\ probe[t].result = Empty

\* C21: when check_task(task, hint) returns the empty result, a call without a hint on
\* the same files would return the status of the hint
C21_CacheTransparency ==
    \A t \in Tasks : ReturnedEmpty(t) => FreshStatus(fs[t], now) = probe[t].hint.status

\* C21 for the hints that say running
C21_RunningHint ==
    \A t \in Tasks :
        (ReturnedEmpty(t) /\ probe[t].hint.status = "running")
            => FreshStatus(fs[t], now) = "running"

-----------------------------------------------------------------------------
(* SpecCache: check_tasks in one process and purge_tasks in another, with   *)
(* the lock file that guards the StatusCache file.  The mapping NoCache     *)
(* stands for a cache file that is not there, or holds no entry.            *)

\* most steps of the interpreter in SpecCache
MaxCacheEvents == 2

CacheEvent == events < MaxCacheEvents

LockFrame == UNCHANGED <<now, byteorder, recVars, probeVars, sweep, master, kill, purge, caller>>

\* with fasteners.InterProcessLock(cache_file + '_'): entered once the lock is free
Acquire(who) ==
    /\ lock = Free
    /\ lock' = who
    /\ LockFrame

\* the with block is left
Release(who) ==
    /\ lock = who
    /\ lock' = Free
    /\ LockFrame

\* every probe of the pool has ended, none with an exception, and one result is not empty
ToStore ==
    /\ sweep.pc = "probing"
    /\ \A t \in sweep.tasks : sweep.raw[t] # NotRun
    /\ ~StarmapRaises(sweep.raw, sweep.tasks)
    /\ HasChanges(sweep.tasks, sweep.raw)

\* check_tasks has loaded the cache and has not started a probe yet
Loaded == sweep.pc = "probing" /\ sweep.started = {}

\* lines 681 and 700: check_tasks takes the lock to load, and to store
SweepAcquire ==
    /\ sweep.pc = "idle" \/ ToStore
    /\ Acquire("check_tasks")

\* a load without the lock
SweepLoadUnlocked(tasks) ==
    /\ lock # "check_tasks"
    /\ CheckTasks(tasks, FALSE)

\* lines 680-683: the load, under the lock when there is a cache file
SweepLoad(tasks) ==
    /\ lock = "check_tasks" \/ (lock # "check_tasks" /\ cache = NoCache)
    /\ CheckTasks(tasks, FALSE)

\* lines 683 and 702: the with block ends after the load, and after the store
SweepRelease ==
    /\ Loaded \/ sweep.pc = "returned"
    /\ Release("check_tasks")

\* lines 688-689, run once the lock of the load is released
SweepPoolCall(t) ==
    /\ lock # "check_tasks"
    /\ PoolCall(t)

\* lines 692-703: the store is made under the lock
SweepStore ==
    /\ ToStore => lock = "check_tasks"
    /\ ~ToStore => lock # "check_tasks"
    /\ Starmap

SweepReturn ==
    /\ lock # "check_tasks"
    /\ SweepEnds

\* lines 1166 and 1185: purge_tasks takes the lock to load, and to store
PurgeAcquire ==
    /\ purge.pc = "load" \/ (purge.pc = "remove" /\ purge.todo = {})
    /\ Acquire("purge_tasks")

\* lines 1165-1170
LockedPurgeLoad ==
    /\ lock = "purge_tasks" \/ (lock # "purge_tasks" /\ cache = NoCache)
    /\ PurgeLoad

\* lines 1167 and 1187
PurgeRelease ==
    /\ (purge.pc = "remove" /\ purge.todo = purge.all_tasks) \/ purge.pc = "returned"
    /\ Release("purge_tasks")

\* lines 1171-1184, run once the lock of the load is released
UnlockedPurgeRemove(t, fail) ==
    /\ lock # "purge_tasks"
    /\ PurgeRemove(t, fail)

\* lines 1185-1187
LockedPurgeStore ==
    /\ lock = "purge_tasks"
    /\ PurgeStore

PurgeReturn ==
    /\ lock # "purge_tasks"
    /\ PurgeEnds

NextCache ==
    \/ SweepAcquire
    \/ \E ts \in SUBSET Tasks : SweepLoad(ts)
    \/ SweepRelease
    \/ \E t \in Tasks : SweepPoolCall(t)
    \/ \E t \in Tasks : PoolResult(t)
    \/ SweepStore
    \/ SweepReturn
    \/ \E t \in Tasks : PulseCheck(t)
    \/ \E t \in Tasks : JobCheck(t)
    \/ \E t \in Tasks : NoJobBody(t)
    \/ \E ts \in SUBSET Tasks : PurgeTasks(ts)
    \/ PurgeAcquire
    \/ LockedPurgeLoad
    \/ PurgeRelease
    \/ \E t \in Tasks : UnlockedPurgeRemove(t, "none")
    \/ LockedPurgeStore
    \/ PurgeReturn
    \/ \E t \in Tasks : CacheEvent /\ SaveTask(t)

SpecCache == Init /\ [][NextCache]_vars

\* a check_tasks call and a purge_tasks call on other tasks have both returned
BothReturned ==
    /\ sweep.pc = "returned"
    /\ purge.pc = "returned"
    /\ sweep.tasks \cap purge.all_tasks = {}

\* C22: after check_tasks and purge_tasks have both finished, the cache file holds every
\* new entry of check_tasks and no id that purge_tasks removed
C22_NoLostUpdate ==
    BothReturned =>
        /\ \A t \in sweep.tasks : sweep.raw[t] # Empty => cache[t] = sweep.raw[t]
        /\ \A t \in purge.all_tasks : cache[t] = Empty

\* what does hold: the cache file is the mapping of the call that stored last
C22_LastStoreWins ==
    BothReturned => cache \in {sweep.ret, purge.stored}

\* the steps that read the cache file, and the steps that write it
SweepLoads == sweep.pc = "idle" /\ sweep'.pc = "probing" /\ cache # NoCache
SweepStores ==
    sweep.pc = "probing" /\ sweep'.pc = "returned" /\ HasChanges(sweep.tasks, sweep.raw)
PurgeLoads == purge.pc = "load" /\ purge'.pc = "remove" /\ cache # NoCache
PurgeStores == purge.pc = "remove" /\ purge'.pc = "returned"

\* a turn of the removal loop of purge_tasks
PurgeRemoves == purge.pc = "remove" /\ purge'.pc = "remove" /\ purge' # purge

\* C23: check_tasks and purge_tasks load and store the cache file only while they hold
\* the lock, and while the lock is held no probe of check_tasks is under way and
\* purge_tasks removes no file
C23_LockDiscipline ==
    [][/\ (SweepLoads \/ SweepStores) => lock = "check_tasks"
       /\ (PurgeLoads \/ PurgeStores) => lock = "purge_tasks"
       /\ lock = "check_tasks" => \A t \in Tasks : probe[t].pc = "idle" /\ probe'[t].pc = "idle"
       /\ lock = "purge_tasks" => ~PurgeRemoves]_vars

\* purge_tasks holds the lock for its store while check_tasks, which loaded a cache
\* with an entry under the lock, has a probe under way
C23_Witness ==
    /\ lock = "purge_tasks"
    /\ purge.pc = "returned"
    /\ sweep.pc = "probing"
    /\ sweep.status_cache # NoCache
    /\ \E t \in Tasks : probe[t].pc # "idle"

-----------------------------------------------------------------------------
(* SpecRetry: one call after another on one task, while the interpreter     *)
(* rewrites the record and the executor writes its pulse file as often as   *)
(* they like; only the clock is bounded (MaxTime).                          *)

\* the retry count that a bounded retry loop would allow; check_task has none
MaxRetries == 2

\* the clock step between two rewrites of the record
RetryTick == 2 * monitor_interval + 2

\* TaskFile(t).save(params), then TaskFile(t).update(params) at any later time
Rewrite(t) ==
    /\ fs' = [fs EXCEPT ![t] = [@ EXCEPT !.task = now,
                                         !.status = IF fs[t].task = 0
                                                    THEN TaskStatus.new
                                                    ELSE TaskStatus.pending]]
    /\ probe' = Disturb(probe, {t})
    /\ UNCHANGED now
    /\ ProbeFrame

\* the executor appends to {id}.pulse
Pulse(t) ==
    /\ fs[t].task # 0
    /\ fs[t].pulse_w
    /\ fs' = [fs EXCEPT ![t] = [@ EXCEPT !.pulse = now]]
    /\ probe' = Disturb(probe, {t})
    /\ UNCHANGED now
    /\ ProbeFrame

\* time passes
PassesBy(d) ==
    /\ now + d <= MaxTime
    /\ now' = now + d
    /\ probe' = Disturb(probe, Tasks)
    /\ UNCHANGED fs
    /\ ProbeFrame

Passes == PassesBy(RetryTick)

NextRetry ==
    \/ CheckTask(ProbedTask, Empty)
    \/ PulseCheck(ProbedTask)
    \/ PulseBody(ProbedTask)
    \/ JobCheck(ProbedTask)
    \/ NoJobBody(ProbedTask)
    \/ Finish(ProbedTask)
    \/ Rewrite(ProbedTask)
    \/ Pulse(ProbedTask)
    \/ Passes

SpecRetry == Init /\ [][NextRetry]_vars

\* C24: within one check_task call the number of re-probes from scratch stays within a
\* maximum retry count, however often the record is rewritten
C24_BoundedRetries ==
    \A t \in Tasks : probe[t].retries <= MaxRetries

\* every re-probe answers a rewrite of the record: the record is newer than the
\* modification time the previous attempt had read
C24_RetryOnChange ==
    [][\A t \in Tasks :
          probe'[t].retries > probe[t].retries => fs[t].task # probe[t].mtime]_vars

-----------------------------------------------------------------------------
(* SpecRace: line 570 in its two steps, the existence test of the pulse     *)
(* file and the stat calls, with the other processes of SpecRetry and a     *)
(* pulse file that can be removed.                                          *)

\* line 570, first operand: os.path.isfile(pulse_file)
PulseExists(t) ==
    /\ probe[t].pc = "pulse"
    /\ probe' = [probe EXCEPT ![t] =
           [@ EXCEPT !.pc = IF fs[t].pulse # 0 THEN "pulse_stat" ELSE "job"]]
    /\ UNCHANGED <<now, fs>>
    /\ ProbeFrame

\* line 570, second operand: os.stat(pulse_file) and os.stat(task_file), outside any try
PulseStat(t) ==
    /\ probe[t].pc = "pulse_stat"
    /\ LET f == fs[t]
           p == probe[t]
       IN  probe' = [probe EXCEPT ![t] =
               IF f.pulse = 0 \/ f.task = 0 THEN Raised(p, "FileNotFoundError")
               ELSE IF PulseFresh(f) THEN [p EXCEPT !.pc = "pulse_body"]
               ELSE [p EXCEPT !.pc = "job"]]
    /\ UNCHANGED <<now, fs>>
    /\ ProbeFrame

\* the executor ends and removes {id}.pulse
Vanish(t) ==
    /\ fs[t].pulse # 0
    /\ fs' = [fs EXCEPT ![t] = [@ EXCEPT !.pulse = 0, !.pulse_w = TRUE]]
    /\ probe' = Disturb(probe, {t})
    /\ UNCHANGED now
    /\ ProbeFrame

NextRace ==
    \/ CheckTask(ProbedTask, Empty)
    \/ PulseExists(ProbedTask)
    \/ PulseStat(ProbedTask)
    \/ PulseBody(ProbedTask)
    \/ JobCheck(ProbedTask)
    \/ NoJobBody(ProbedTask)
    \/ Finish(ProbedTask)
    \/ Rewrite(ProbedTask)
    \/ Pulse(ProbedTask)
    \/ Vanish(ProbedTask)
    \/ Passes

SpecRace == Init /\ [][NextRace]_vars

\* an attempt of the call on t, past its status read, ends with an exception
ErrorLeaves(t) ==
    /\ probe[t].pc \notin {"idle", "returned", "raised"}
    /\ probe'[t].pc = "raised"
    /\ probe'[t].retries = probe[t].retries

\* C25: an error met after the terminal-state check leaves check_task only if the
\* record file has not changed since the attempt started; otherwise the probe starts over
C25_RaceErrors ==
    [][\A t \in Tasks : ErrorLeaves(t) => fs[t].task = probe[t].mtime]_vars

\* C25 for the errors met inside the try blocks of lines 571-633 and 659-670
C25_InsideTry ==
    [][\A t \in Tasks :
          (ErrorLeaves(t) /\ probe[t].pc \in {"pulse_body", "nojob_body"} /\ fs[t].task # 0)
              => fs[t].task = probe[t].mtime]_vars

-----------------------------------------------------------------------------
(* SpecBand: the calls that find the pulse file in the middle band, with    *)
(* the other processes of SpecRetry and the hint of the previous call.      *)

\* the clock step that takes a fresh pulse file into the middle band
BandTick == monitor_interval + 1

\* the last clock value at which the other processes of SpecBand act
MaxBandTime == 20

BandOpen == now <= MaxBandTime

NextBand ==
    \/ \E hint \in {Empty, cache[ProbedTask]} : CheckTask(ProbedTask, hint)
    \/ PulseCheck(ProbedTask)
    \/ PulseBody(ProbedTask)
    \/ Sleep(ProbedTask)
    \/ AfterSleep(ProbedTask)
    \/ JobCheck(ProbedTask)
    \/ NoJobBody(ProbedTask)
    \/ Finish(ProbedTask)
    \/ BandOpen /\ Rewrite(ProbedTask)
    \/ BandOpen /\ Pulse(ProbedTask)
    \/ BandOpen /\ PassesBy(BandTick)

SpecBand == Init /\ [][NextBand]_vars

\* the call on t is back from its sleep and has found the record and the pulse file
AfterSleepStep(t) ==
    /\ probe[t].pc = "after_sleep"
    /\ probe'[t].pc # "after_sleep"
    /\ fs[t].task # 0
    /\ fs[t].pulse # 0

\* the call returns status, or the empty result on a hint that says status
Returns(p, status) ==
    /\ p.pc = "returned"
    /\ \/ p.result.status = status
       \/ p.result = Empty /\ p.hint.status = status

\* the step leaves the record of t running: written so unless read so at entry
MarkedRunning(t) ==
    IF probe[t].status = "running" THEN fs'[t] = fs[t] ELSE Stored(fs'[t]) = "running"

\* the companion files of f are gone
NoCompanions(f) == f.sh = 0 /\ f.job_id = 0 /\ f.pulse = 0 /\ ~f.out /\ ~f.err

\* C26: a pulse file in the middle band makes check_task sleep twice the threshold;
\* back from the sleep it re-probes if the record changed, else marks and returns
\* running if the pulse file's mtime advanced, else marks and returns aborted and
\* deletes the companion files
C26_MiddleBand ==
    [][\A t \in Tasks :
          /\ (probe[t].pc = "pulse_body" /\ probe'[t].pc = "sleep")
                => (now - fs[t].pulse >= monitor_interval
                    /\ now - fs[t].pulse <= 2 * monitor_interval)
          /\ (probe[t].pc = "sleep" /\ probe'[t].pc = "after_sleep")
                => now' = now + 2 * monitor_interval
          /\ AfterSleepStep(t) =>
                IF fs[t].task # probe[t].mtime
                THEN probe'[t].retries = probe[t].retries + 1
                ELSE IF fs[t].pulse # probe[t].start_stamp
                THEN MarkedRunning(t) /\ Returns(probe'[t], "running")
                ELSE /\ Stored(fs'[t]) = "aborted"
                     /\ NoCompanions(fs'[t])
                     /\ Returns(probe'[t], "aborted")]_vars

\* C26 for the calls without a hint that says running
C26_NoRunningHint ==
    [][\A t \in Tasks :
          (AfterSleepStep(t) /\ probe[t].hint.status # "running") =>
                IF fs[t].task # probe[t].mtime
                THEN probe'[t].retries = probe[t].retries + 1
                ELSE IF fs[t].pulse # probe[t].start_stamp
                THEN MarkedRunning(t) /\ probe'[t].result.status = "running"
                ELSE /\ Stored(fs'[t]) = "aborted"
                     /\ NoCompanions(fs'[t])
                     /\ probe'[t].result.status = "aborted"]_vars

-----------------------------------------------------------------------------
(* The read-only liveness file: lines 570-581 under SpecKill, where         *)
(* kill_task takes the write permission away.                               *)

\* a call on a record not in a terminal status whose liveness file is read-only and
\* not older than the record by more than a second
ReadOnlyCase(t) ==
    LET p == probe[t] IN
    /\ Ended(t)
    /\ p.pre.f.task # 0
    /\ Stored(p.pre.f) \in {"new", "pending", "submitted", "running"}
    /\ PulseFresh(p.pre.f)
    /\ ~p.pre.f.pulse_w

\* aborted is returned, the record is aborted and the companion files are gone
ReadOnlyOutcome(t) ==
    /\ probe[t].pc = "returned"
    /\ probe[t].result.status = "aborted"
    /\ Stored(fs[t]) = "aborted"
    /\ NoCompanions(fs[t])

\* C27: a record not in a terminal status with a read-only liveness file that is not
\* older than the record by more than a second: the record is set to aborted, the
\* companion files are deleted and aborted is returned, whatever the age of the file
C27_KilledExecutor == \A t \in Tasks : ReadOnlyCase(t) => ReadOnlyOutcome(t)

\* C27 on a host whose byte order is that of the header
C27_OnBigEndian == byteorder = "big" => C27_KilledExecutor

\* C27 for the calls that no hint stops at line 539
C27_PastTheHint ==
    \A t \in Tasks :
        (ReadOnlyCase(t) /\ ~HintShortCircuit(probe[t].pre.f, probe[t].hint))
            => ReadOnlyOutcome(t)

\* C27 with both
C27_PastTheHintOnBigEndian == byteorder = "big" => C27_PastTheHint

\* the read-only branch has acted on a liveness file older than twice the threshold
C27_AnyAge ==
    ~ \E t \in Tasks :
        /\ ReadOnlyCase(t)
        /\ ReadOnlyOutcome(t)
        /\ probe[t].pre.now - probe[t].pre.f.pulse > 2 * monitor_interval

-----------------------------------------------------------------------------
(* add_outputs, update, reset and the status setter, step by step *)

\* the step is a call of op on the record
CallOf(op) == exists /\ nops' = nops + 1 /\ lastOp' = op

\* the step is add_outputs on a record that has a result
AddOutputsOverResult == CallOf("add_outputs") /\ header.result_size # 0

\* the bytes after the header are the params section and the three new sections
OnlyParamsAndOutputs ==
    /\ Len(body') = header'.params_size + header'.pulse_size + header'.stdout_size
                        + header'.stderr_size
    /\ ReadAt(body', 0, header.params_size) = ReadAt(body, 0, header.params_size)

\* C28: add_outputs on a record whose result_size is not 0 resets the record first:
\* on return result_size and signature_size are 0, the status is new and the file
\* holds the header, the params section and the newly attached sections only
C28_AddOutputsResets ==
    [][AddOutputsOverResult =>
          /\ header'.result_size = 0
          /\ header'.signature_size = 0
          /\ header'.status = TaskStatus.new
          /\ header'.params_size = header.params_size
          /\ OnlyParamsAndOutputs]_vars

\* what add_outputs does reset: the bytes of the file, not the header
C28_BytesOnly ==
    [][AddOutputsOverResult =>
          /\ OnlyParamsAndOutputs
          /\ header'.result_size = header.result_size
          /\ header'.signature_size = header.signature_size
          /\ header'.status = header.status]_vars

\* the five sections other than params have size 0
NoEvidenceSizes(h) ==
    /\ h.pulse_size = 0 /\ h.stdout_size = 0 /\ h.stderr_size = 0
    /\ h.result_size = 0 /\ h.signature_size = 0

\* every transition timestamp other than new_time is 0
NoEvidenceTimes(h) ==
    /\ h.pending_time = 0 /\ h.submitted_time = 0 /\ h.running_time = 0
    /\ h.aborted_time = 0 /\ h.failed_time = 0 /\ h.completed_time = 0

\* the record after the step holds the header and the params section only
Cleared ==
    /\ NoEvidenceSizes(header')
    /\ NoEvidenceTimes(header')
    /\ header_size + Len(body') = header_size + header'.params_size

\* C29: after update(params) or reset() the five non-params sizes are 0, every
\* transition timestamp other than new_time is 0 and the file is as long as the header
\* and the params section; update stores pending and the new params, reset stores new
\* and leaves params_size and the params bytes as they were
C29_UpdateAndReset ==
    [][/\ CallOf("update") =>
             /\ Cleared
             /\ header'.status = TaskStatus.pending
             /\ GetParams(header', body') = written'["params"]
       /\ CallOf("reset") =>
             /\ Cleared
             /\ header'.status = TaskStatus.new
             /\ header'.params_size = header.params_size
             /\ ReadAt(body', 0, header'.params_size) = ReadAt(body, 0, header.params_size)
      ]_vars

\* an update or a reset has run as the third call, after the clock has advanced
C29_Witness ==
    /\ exists
    /\ lastOp \in {"update", "reset"}
    /\ nops = MaxOps
    /\ header.new_time > 1
    /\ NoEvidenceSizes(header)
    /\ header_size + Len(body) = header_size + header.params_size

\* the fields of the header
HeaderFields ==
    {"version", "status", "tags", "new_time", "pending_time", "submitted_time",
     "running_time", "aborted_time", "failed_time", "completed_time", "last_modified",
     "params_size", "pulse_size", "stdout_size", "stderr_size", "result_size",
     "signature_size"}

\* the timestamp field of a status
OwnTime ==
    [new |-> "new_time", pending |-> "pending_time", submitted |-> "submitted_time",
     running |-> "running_time", aborted |-> "aborted_time", failed |-> "failed_time",
     completed |-> "completed_time"]

\* C30: assigning status s changes only the status field, the timestamp of s and
\* last_modified: the version, the tags, the other timestamps, the six sizes, the
\* bytes of the sections and the length of the file stay as they were
C30_StatusWriteFrame ==
    [][\A s \in StatusNames :
          CallOf(SetterOp[s]) =>
              /\ \A k \in HeaderFields \ {"status", OwnTime[s], "last_modified"} :
                    header'[k] = header[k]
              /\ body' = body
              /\ exists']_vars

\* running has been assigned on a record that has a result
C30_Witness ==
    /\ exists
    /\ lastOp = SetterOp["running"]
    /\ header.status = TaskStatus.running
    /\ header.running_time > 0
    /\ header.last_modified = header.running_time
    /\ header.result_size > 0

-----------------------------------------------------------------------------
(* The status field read back *)

\* C31: the status getter returns the name of the state that save, update, reset or
\* the status setter stored last, for every state
C31_StatusReadBack ==
    exists => GetStatus(header, byteorder) = TaskStatusName(header.status)

\* C31 on a host whose byte order is that of the header
C31_OnBigEndian == byteorder = "big" => C31_StatusReadBack

\* C31 for the state of value 0
C31_ValueZero ==
    (exists /\ header.status = TaskStatus.new) => GetStatus(header, byteorder) = "new"

\* C32: every operation that rewrites the header sets last_modified to the time of
\* the write, so last_modified is never older than the last change of the header
C32_LastModifiedTracks ==
    [][header' # header => header'.last_modified = now]_vars

\* C32 for save, update, reset and the status setter
C32_StatusWriters ==
    [][(header' # header /\ lastOp' \notin {"add_outputs", "add_result", "add_signature"})
          => header'.last_modified = now]_vars

\* what the three attaching writers do: last_modified is left as it was
C32_AttachKeeps ==
    [][(exists /\ lastOp' \in {"add_outputs", "add_result", "add_signature"})
          => header'.last_modified = header.last_modified]_vars

-----------------------------------------------------------------------------
(* The tag field: 128 bytes at offset 8.  A tag is written as a positive    *)
(* number and has TagChars characters; a tag of which only the first n      *)
(* characters are in the field is written -n.  The text of a tag list is    *)
(* its tags joined by one space each.                                       *)

tags_size == 128

\* the tag of many characters, and how many
LongTag == 3
LongChars == 64

TagChars(tag) == IF tag < 0 THEN -tag ELSE IF tag = LongTag THEN LongChars ELSE 1

\* the tag lists handed to the setter and to add_tags
TagLists == {<<>>, <<2, 1>>, <<LongTag>>, <<LongTag, LongTag>>}

\* len(' '.join(tags))
RECURSIVE JoinLen(_)
JoinLen(tags) ==
    IF tags = <<>> THEN 0
    ELSE TagChars(Head(tags)) + (IF Len(tags) > 1 THEN 1 + JoinLen(Tail(tags)) ELSE 0)

\* the tags that the first room characters of ' '.join(tags) hold, after strip()
RECURSIVE FieldTags(_, _)
FieldTags(tags, room) ==
    IF tags = <<>> \/ room <= 0 THEN <<>>
    ELSE IF TagChars(Head(tags)) <= room
         THEN <<Head(tags)>> \o FieldTags(Tail(tags), room - TagChars(Head(tags)) - 1)
         ELSE <<-room>>

\* a header field or a byte of the file that holds characters of the tags
Clobbered == -1

TimeFields ==
    <<"new_time", "pending_time", "submitted_time", "running_time", "aborted_time",
      "failed_time", "completed_time", "last_modified">>

SizeFields ==
    <<"params_size", "pulse_size", "stdout_size", "stderr_size", "result_size",
      "signature_size">>

\* the header after n bytes were written past the end of the tag field
Spill(h, n) ==
    [k \in DOMAIN h |->
        IF \E i \in 1..8 : TimeFields[i] = k /\ n > 8 * (i - 1) THEN Clobbered
        ELSE IF \E j \in 1..6 : SizeFields[j] = k /\ n > 64 + 4 * (j - 1) THEN Clobbered
        ELSE h[k]]

\* the bytes after the header when n bytes were written past the end of the tag field
SpillBody(b, n) ==
    IF n <= header_size - 8 - tags_size THEN b
    ELSE WriteAt(b, 0, [i \in 1..(n - (header_size - 8 - tags_size)) |-> Clobbered])

\* fh.seek(8, 0); fh.write(' '.join(sorted(tags)).ljust(128).encode()): ljust pads to
\* 128 characters and cuts nothing, so a longer text is written whole
WriteTags(h, tags) ==
    LET text == SortSeq(tags, <)
        over == JoinLen(text) - tags_size
    IN  IF over <= 0 THEN [h EXCEPT !.tags = text]
        ELSE Spill([h EXCEPT !.tags = FieldTags(text, tags_size)], over)

WriteTagsBody(b, tags) == SpillBody(b, JoinLen(SortSeq(tags, <)) - tags_size)

\* _get_tags: fh.read(128).decode().strip()
GetTags(h) == h.tags

\* tf.tags = tags
SetTags(tags) ==
    /\ exists
    /\ Call("tags=")
    /\ header' = WriteTags(header, tags)
    /\ body' = WriteTagsBody(body, tags)
    /\ caller' = [NoCaller EXCEPT !.arg = [content |-> tags]]
    /\ UNCHANGED <<now, byteorder, master, kill, purge, lock, exists, written,
                   probeVars, sweep>>

\* add_tags(tags): the field is read, split, and written with the new tags
AddTags(tags) ==
    /\ exists
    /\ Call("add_tags")
    /\ LET existing_tags == GetTags(header)
       IN  /\ header' = WriteTags(header, tags \o existing_tags)
           /\ body' = WriteTagsBody(body, tags \o existing_tags)
           /\ caller' = [NoCaller EXCEPT !.arg = [content |-> tags \o existing_tags]]
    /\ UNCHANGED <<now, byteorder, master, kill, purge, lock, exists, written,
                   probeVars, sweep>>

NextTags ==
    \/ \E p \in Contents, t \in TagInputs : Save(p, t)
    \/ \E s \in StatusInputs : SetStatus(s)
    \/ \E r \in Contents : AddResult(r)
    \/ \E tags \in TagLists : SetTags(tags)
    \/ \E tags \in TagLists : AddTags(tags)
    \/ TickRecord

SpecTags == InitRecord /\ [][NextTags]_vars

\* the step is a call of the tags setter or of add_tags
TagsCall == exists /\ nops' = nops + 1 /\ lastOp' \in {"tags=", "add_tags"}

\* the tags the call has to store: those handed in, with the existing ones for add_tags
ToStoreTags == SortSeq(caller'.arg.content, <)

\* C33: the tags setter and add_tags store the sorted, joined tags in the 128 bytes at
\* offset 8 and change no byte outside them, and the tags getter returns that text,
\* for every tag list
C33_FixedTagField ==
    [][TagsCall =>
          /\ header'.tags = ToStoreTags
          /\ GetTags(header') = ToStoreTags
          /\ \A k \in HeaderFields \ {"tags"} : header'[k] = header[k]
          /\ body' = body]_vars

\* C33 for the tag lists whose text has at most 128 characters
C33_WhenItFits ==
    [][(TagsCall /\ JoinLen(ToStoreTags) <= tags_size) =>
          /\ header'.tags = ToStoreTags
          /\ GetTags(header') = ToStoreTags
          /\ \A k \in HeaderFields \ {"tags"} : header'[k] = header[k]
          /\ body' = body]_vars

-----------------------------------------------------------------------------
(* The partial sweep and the cache file *)

\* a partial check_tasks call returns with this step
PartialReturns == sweep.pc = "probing" /\ sweep'.pc = "returned" /\ ~sweep.is_all

\* C34: a partial check_tasks call changes in the cache file only the entries of the
\* queried tasks whose probe returned a non-empty result, leaves every other entry as
\* it is, and rewrites the file only when some probe returned a non-empty result
C34_PartialFrame ==
    [][PartialReturns =>
          /\ \A t \in Tasks :
                cache'[t] # cache[t] => (t \in sweep.tasks /\ sweep.raw[t] # Empty)
          /\ ~HasChanges(sweep.tasks, sweep.raw) => cache' = cache]_vars

\* what holds of the mapping the call loaded, rather than of the file at the store
C34_OfTheLoadedCache ==
    [][PartialReturns =>
          IF HasChanges(sweep.tasks, sweep.raw)
          THEN \A t \in Tasks :
                  cache'[t] # sweep.status_cache[t]
                      => (t \in sweep.tasks /\ sweep.raw[t] # Empty
                            /\ cache'[t] = sweep.raw[t])
          ELSE cache' = cache]_vars

-----------------------------------------------------------------------------
(* The stack and the id of the master *)

\* the step is a call of push
PushStep == master'.calls = master.calls + 1

\* C35: every successful push appends the pushed (sub-task id, params) pair to the
\* stack, which is otherwise never changed, so that after k successful pushes the
\* stack holds the k pairs in push order, num_tasks() is k and the id is M{k}_{id of
\* the first sub-task pushed}
C35_BatchIdentity ==
    [][PushStep =>
          IF master'.raised
          THEN master'.task_stack = master.task_stack /\ master'.ID = master.ID
          ELSE /\ master'.task_stack =
                      Append(master.task_stack, <<master.calls + 1, master'.pushed>>)
               /\ num_tasks(master') = num_tasks(master) + 1
               /\ master'.ID = <<num_tasks(master'), master'.task_stack[1][1]>>]_vars

\* three sub-tasks are in the stack after a push that raised
C35_Witness ==
    /\ num_tasks(master) = 3
    /\ master.calls > 3
    /\ ~master.raised
    /\ master.ID = <<3, master.task_stack[1][1]>>
    /\ master.task_stack[3][1] > 3

\* C36: a push that raises the resource-mismatch error leaves the master as it was:
\* the stack, the id, the tags and the merged values of walltime, cores, mem and name
C36_FailedPushAtomic ==
    [][(PushStep /\ master'.raised) =>
          /\ master'.task_stack = master.task_stack
          /\ master'.ID = master.ID
          /\ master'.tags = master.tags
          /\ master'.runtime = master.runtime]_vars

\* C36 without the merged values
C36_StackIdTags ==
    [][(PushStep /\ master'.raised) =>
          /\ master'.task_stack = master.task_stack
          /\ master'.ID = master.ID
          /\ master'.tags = master.tags]_vars

\* the merged values after a push that raised: those of the keys before the one that
\* differs are already the values for one sub-task more
C36_MergedUpToTheKey ==
    [][(PushStep /\ master'.raised) =>
          master'.runtime = PushLoop(1, master.first, master'.pushed, master.runtime,
                                     num_tasks(master), master.num_workers).runtime]_vars

====
